---------------------------- MODULE Spec2Model ----------------------------
(***************************************************************************)
(* Verification model of the TalkTuah API gateway (src/api):               *)
(*   - the resilient request executor: request_with_retry                  *)
(*     (utils/http_client.py) and the inline retry loop of the chat        *)
(*     endpoint (routers/chat.py);                                         *)
(*   - the SSE stream relay stream_chat_response (utils/streaming.py);     *)
(*   - the download service DownloadService (lib/downloads.py).            *)
(* Each coroutine is cut at its suspension points (await / yield); the     *)
(* statements between two suspension points form one action.              *)
(***************************************************************************)
EXTENDS Integers, Sequences, FiniteSets, TLC

(***************************************************************************)
(* Bounds of the model                                                     *)
(***************************************************************************)
\* largest max_retries argument passed to request_with_retry
MaxRetriesArg == 3
\* longest upstream body (in lines) handed to the stream relay
MaxLines == 3
\* longest upstream body (in lines) answered to a streaming chat request
MaxChatLines == 2
\* number of download_model calls issued
MaxStarts == 3
\* download_model calls in a behaviour of the polled download service
MaxPollStarts == 2
\* get_http_client / close_http_client calls in a behaviour of the pool manager
MaxPoolOps == 5
\* requests received within one minute
MaxRequests == 3
\* download_model calls in a run of the fair download service
MaxFairStarts == 2

(***************************************************************************)
(* Program constants                                                       *)
(***************************************************************************)
\* settings.rate_limit_per_minute, scaled down from 60
RateLimitPerMinute == 2
\* settings.upstream_timeout and settings.stream_timeout, in seconds
UpstreamTimeout == 300
StreamTimeout == 600
\* both retry loops: timeout = 10.0 on every attempt but the first
RetryTimeout == 10
\* chat.py: max_retries = 10
ChatMaxRetries == 10
\* chat.py: retry_delay = 4
ChatRetryDelay == 4
\* http_client.py: retry_delay: float = 4.0
DefaultRetryDelay == 4

\* except (httpx.ConnectError, httpx.RemoteProtocolError, httpx.TimeoutException)
RetryableErrors == {"ConnectError", "RemoteProtocolError", "TimeoutException"}
\* exceptions a request can raise that the retry loops do not catch:
\* ReadError is an httpx.RequestError, InvalidURL is not
OtherErrors == {"ReadError", "InvalidURL"}
\* status codes of the responses the upstream answers with
StatusCodes == {200, 404, 500}
\* retry_delay arguments passed to request_with_retry
DelayArgs == {1, DefaultRetryDelay}
\* the max_retries arguments passed to request_with_retry, among them the
\* value the chat endpoint uses
RetriesArgs == (1..MaxRetriesArg) \cup {ChatMaxRetries}

NoError == "None"
NoStatus == 0
\* kwargs without a timeout entry: the client's own timeout applies
NoTimeout == 0
\* the timeout a caller of request_with_retry passes, if any
TimeoutArgs == {NoTimeout, 5, 30}
\* identity of the shared pooled client; fresh clients are numbered 1, 2, ...
PooledId == 0
NoClient == -1

(***************************************************************************)
(* The upstream lines the relay can be given.  A line is one element of    *)
(* aiter_lines(); str.strip and str.startswith are given by their value    *)
(* on each of these lines.                                                 *)
(***************************************************************************)
SentinelLine == "data: [DONE]"
Lines == {"", "data: {a}", "data: {b}", "data: [DONE]", "data: [DONE] ", ": ping"}

\* line.strip()
Strip(line) == IF line = "data: [DONE] " THEN "data: [DONE]" ELSE line

\* line.startswith("data: ")
StartsWithData(line) == line \in {"data: {a}", "data: {b}", "data: [DONE]", "data: [DONE] "}

\* f"{line}\n\n": the line followed by the blank line that ends the frame
Frame(line) == <<line, "\n\n">>

\* f"data: {json.dumps(error_event)}\n\n"
ErrorFrame == <<"data: {\"error\": ..., \"type\": \"stream_error\"}", "\n\n">>

VARIABLES
  \* ---- executor (one call of request_with_retry or of the chat endpoint)
  site,         \* which code runs: "none", "request_with_retry", "chat_completion"
  pc,           \* position of the call
  max_retries,  \* max_retries of the call
  retry_delay,  \* retry_delay of the call
  is_streaming, \* chat: request_data.get("stream", True)
  attempt,      \* loop variable of `for attempt in range(max_retries)`
  client,       \* the client the current attempt uses
  pool,         \* the shared client _http_client: [created, uses, closes]
  handles,      \* the fresh clients created so far: sequence of [open, uses]
  sleeps,       \* number of asyncio.sleep calls completed
  slept,        \* total duration slept
  requests,     \* number of upstream requests issued
  err,          \* exception raised by the current attempt
  last_error,   \* last_error of the code
  first_error,  \* exception raised by the first attempt (history)
  response,     \* status code of the response received, NoStatus if none
  body,         \* lines of the response body held by the gateway
  raised,       \* exception the call raised, NoError if none
  result,       \* how the call ended: "none", "response", "raised", ...
  \* ---- upstream of a chat request
  http_status,  \* chat: status code of the HTTPException raised, NoStatus if none
  upStatus,     \* status code of the response the upstream is sending
  upBody,       \* the body the upstream is producing for the current request
  upProduced,   \* number of its lines the upstream has produced
  \* ---- stream relay (one run of stream_chat_response)
  rpc,          \* position of the generator
  upLines,      \* lines upstream_response.aiter_lines() will deliver
  failAt,       \* number of lines after which reading raises, -1 if never
  rpos,         \* number of lines read
  cur,          \* the line being yielded
  out,          \* frames handed to the downstream consumer
  closes,       \* number of upstream_response.aclose() calls
  rexit,        \* why the loop was left
  \* ---- download service
  download_state, \* self._download_state: model_id -> state or NoEntry
  tasks,          \* background tasks created by asyncio.create_task
  clock,          \* datetime.now().timestamp()
  starts,         \* number of download_model calls made
  running,        \* the background task inside an event-loop block, 0 if none
  polled,         \* what the last get_progress call returned
  \* ---- model switch and backend status (ModelService, DockerService, VLLMService)
  artifacts,    \* the models whose directory exists under models_dir
  env,          \* the file /workspace/.env: [exists, default, writes]
  backend,      \* the vLLM container: "down", "loading" or "ready"
  sw_pc,        \* position of the switch_model call
  sw_model,     \* its model_id
  sw_log,       \* the steps it has performed, in order
  sw_result,    \* how it ended: "none", "switching", "not_found", "error"
  sw_http,      \* status code the /switch-model route answers with
  restart,      \* the delayed_restart task: "none", "scheduled", "ran", "failed"
  ls_reply,     \* what the backend answered to the last get_loading_status
  ls_result,    \* status the last get_loading_status returned
  \* ---- transport pool manager under concurrent callers
  http_client,  \* the global _http_client: 0 for None, else the client's number
  pooled,       \* the shared clients created so far: sequence of [closing, closes]
  callers,      \* the calls in progress: caller -> [pc, target, got, shutdowns]
  pool_ops,     \* number of get_http_client / close_http_client calls made
  \* ---- requests arriving at the routes
  stream_field, \* the "stream" field of the chat request being served
  gw_req,       \* the last request received: [endpoint, client, auth]
  gw_status,    \* status it was rejected with, NoStatus if its handler ran
  gw_effect,    \* what its handler did: "none", "upstream", "lifecycle", "local"
  sent,         \* chat requests forwarded in the current minute, per client
  gw_count,     \* requests received in the current minute
  \* ---- health queries (VLLMService.get_health_status)
  hl_reply,     \* what the backend answered to the last health query
  hl_metrics,   \* how the GET /metrics of that query went, "unasked" if not made
  health,       \* the snapshot the last health query returned
  \* ---- timeouts of the executor call
  kw_timeout,   \* kwargs['timeout'] of request_with_retry, NoTimeout if absent
  timeout,      \* the timeout of the current attempt
  first_timeout, \* the timeout that applied to the first attempt
  \* ---- what the executor call did, in order
  trace         \* "pooled", "sleep", "open", "close" and the outcome of each
                \* request: "response", "retryable", "other"

execVars == <<site, pc, max_retries, retry_delay, is_streaming, attempt, client,
              pool, handles, sleeps, slept, requests, err, last_error,
              first_error, response, body, raised, result, http_status,
              upStatus, upBody, upProduced>>
relayVars == <<rpc, upLines, failAt, rpos, cur, out, closes, rexit>>
dlVars == <<download_state, tasks, clock, starts, running>>
lifeVars == <<artifacts, env, backend, sw_pc, sw_model, sw_log, sw_result,
              sw_http, restart, ls_reply, ls_result>>
poolVars == <<http_client, pooled, callers, pool_ops>>
\* the variables no step of the executor, the relay or a download writes
gateVars == <<stream_field, gw_req, gw_status, gw_effect, sent, gw_count>>
healthVars == <<hl_reply, hl_metrics, health>>
timeoutVars == <<kw_timeout, timeout, first_timeout>>
auxRest == <<polled, lifeVars, poolVars, gateVars, healthVars>>
auxVars == <<auxRest, timeoutVars, trace>>
vars == <<execVars, relayVars, dlVars, auxVars>>

(***************************************************************************)
(* Initial states                                                          *)
(***************************************************************************)
\* no executor call has started; the shared client is not created yet
ExecIdle ==
  /\ site = "none" /\ pc = "idle"
  /\ max_retries = 0 /\ retry_delay = 0 /\ is_streaming = FALSE
  /\ attempt = 0 /\ client = NoClient
  /\ pool = [created |-> FALSE, uses |-> 0, closes |-> 0]
  /\ handles = <<>>
  /\ sleeps = 0 /\ slept = 0 /\ requests = 0
  /\ err = NoError /\ last_error = NoError /\ first_error = NoError
  /\ response = NoStatus /\ body = <<>>
  /\ raised = NoError /\ result = "none" /\ http_status = NoStatus
  /\ upStatus = NoStatus /\ upBody = <<>> /\ upProduced = 0

\* no relay runs
RelayIdle ==
  /\ rpc = "idle" /\ upLines = <<>> /\ failAt = -1 /\ rpos = 0
  /\ cur = "" /\ out = <<>> /\ closes = 0 /\ rexit = "none"

NoEntry == [status |-> "absent"]
Models == {"m1", "m2"}

\* DownloadService.__init__: self._download_state = {}
DownloadIdle ==
  /\ download_state = [m \in Models |-> NoEntry]
  /\ tasks = <<>> /\ clock = 0 /\ starts = 0 /\ running = 0

\* get_progress with nothing tracked: the placeholder of downloads.py line 57
IdlePlaceholder == [status |-> "idle", progress |-> 0, model |-> "None"]

\* the default model named by .env before any switch
OldModel == "m0"
\* no get_loading_status call was made yet
NoReply == [reached |-> FALSE, code |-> NoStatus, payload |-> "unasked"]

\* no switch_model call yet; every tracked model's directory exists, .env is
\* present and the backend serves
LifeIdle ==
  /\ artifacts = Models
  /\ env = [exists |-> TRUE, default |-> OldModel, writes |-> 0]
  /\ backend = "ready"
  /\ sw_pc = "idle" /\ sw_model = "None" /\ sw_log = <<>>
  /\ sw_result = "none" /\ sw_http = NoStatus /\ restart = "none"
  /\ ls_reply = NoReply /\ ls_result = "none"

Callers == {1, 2}
NoCall == [pc |-> "idle", target |-> 0, got |-> 0, shutdowns |-> 0]

\* utils/http_client.py line 10: _http_client = None, nobody calling
PoolIdle ==
  /\ http_client = 0 /\ pooled = <<>>
  /\ callers = [c \in Callers |-> NoCall] /\ pool_ops = 0

Clients == {"a", "b"}
NoRequest == [endpoint |-> "None", client |-> "None", auth |-> "None"]

\* no request received yet
GateIdle ==
  /\ stream_field = "None"
  /\ gw_req = NoRequest /\ gw_status = NoStatus /\ gw_effect = "none"
  /\ sent = [c \in Clients |-> 0] /\ gw_count = 0

\* no health query was made yet
NoSnapshot ==
  [status |-> "none", gpu_available |-> FALSE, model_loaded |-> FALSE,
   upstream_healthy |-> FALSE, queue_size |-> <<>>]

HealthIdle == hl_reply = NoReply /\ hl_metrics = "unasked" /\ health = NoSnapshot

\* no attempt was made yet
TimeoutIdle ==
  /\ kw_timeout = NoTimeout /\ timeout = NoTimeout /\ first_timeout = NoTimeout
  /\ trace = <<>>

AuxIdle ==
  /\ polled = IdlePlaceholder
  /\ LifeIdle /\ PoolIdle /\ GateIdle /\ HealthIdle /\ TimeoutIdle

Init == ExecIdle /\ RelayIdle /\ DownloadIdle /\ AuxIdle

(***************************************************************************)
(* Transport pool manager (utils/http_client.py)                           *)
(***************************************************************************)
\* get_http_client(): create the shared client on first use
GetHttpClient(p) == IF p.created THEN p ELSE [p EXCEPT !.created = TRUE]

\* get_fresh_http_client() handing out the previous fresh client again
GetFreshReusesLast(hs) ==
  IF hs = <<>> THEN Append(hs, [open |-> TRUE, uses |-> 0, closes |-> 0])
  ELSE [hs EXCEPT ![Len(hs)].open = TRUE]

\* get_fresh_http_client(): a new client, appended to the clients created so far
GetFreshHttpClient(hs) == Append(hs, [open |-> TRUE, uses |-> 0, closes |-> 0])

\* client.aclose() on the fresh client c
AClose(hs, c) == [hs EXCEPT ![c].open = FALSE, ![c].closes = @ + 1]

\* client.request(...) / client.post(...) issued on the client c
PoolAfterRequest(p, c) == IF c = PooledId THEN [p EXCEPT !.uses = @ + 1] ELSE p
HandlesAfterRequest(hs, c) == IF c = PooledId THEN hs ELSE [hs EXCEPT ![c].uses = @ + 1]

\* `if attempt > 0: await client.aclose()`
CloseIfFresh(hs, a, c) == IF a > 0 THEN AClose(hs, c) ELSE hs
\* the same statement in the record of what the call did
TraceCloseIfFresh(tr, a) == IF a > 0 THEN Append(tr, "close") ELSE tr

(***************************************************************************)
(* request_with_retry (utils/http_client.py)                               *)
(***************************************************************************)
\* the timeout in force when **kwargs carries timeout t: the client's
\* httpx.Timeout(settings.upstream_timeout, ...) when there is none
EffectiveTimeout(t) == IF t = NoTimeout THEN UpstreamTimeout ELSE t

\* a call request_with_retry(method, url, max_retries = mr, retry_delay = rd,
\* timeout = t), or without a timeout when t = NoTimeout
RwrCall(mr, rd, t) ==
  /\ pc = "idle"
  /\ site' = "request_with_retry"
  /\ max_retries' = mr /\ retry_delay' = rd
  /\ attempt' = 0 /\ last_error' = NoError
  /\ pc' = "loop"
  /\ UNCHANGED <<is_streaming, client, pool, handles, sleeps, slept, requests,
                 err, first_error, response, body, raised, result, http_status,
                 upStatus, upBody, upProduced>>
  /\ kw_timeout' = t
  /\ UNCHANGED <<timeout, first_timeout>>
  /\ trace' = <<>>
  /\ UNCHANGED <<relayVars, dlVars, auxRest>>

\* attempt == 0: client = get_http_client()
RwrUsePooled ==
  /\ site = "request_with_retry" /\ pc = "loop" /\ attempt = 0
  /\ pool' = GetHttpClient(pool)
  /\ client' = PooledId
  /\ pc' = "request"
  /\ UNCHANGED <<site, max_retries, retry_delay, is_streaming, attempt, handles,
                 sleeps, slept, requests, err, last_error, first_error, response,
                 body, raised, result, http_status, upStatus, upBody, upProduced>>
  /\ timeout' = kw_timeout
  /\ first_timeout' = EffectiveTimeout(kw_timeout)
  /\ UNCHANGED kw_timeout
  /\ trace' = Append(trace, "pooled")
  /\ UNCHANGED <<relayVars, dlVars, auxRest>>

\* RwrSleep without the sleep: the retry starts at once
RwrSleepNoDelay ==
  /\ site = "request_with_retry" /\ pc = "loop" /\ attempt > 0
  /\ pc' = "fresh"
  /\ UNCHANGED <<site, max_retries, retry_delay, is_streaming, attempt,
                 client, pool, handles, sleeps, slept, requests, err,
                 last_error, first_error, response, body, raised, result,
                 http_status, upStatus, upBody, upProduced>>
  /\ UNCHANGED <<relayVars, dlVars, auxVars>>

\* attempt > 0: await asyncio.sleep(retry_delay)
RwrSleep ==
  /\ site = "request_with_retry" /\ pc = "loop" /\ attempt > 0
  /\ sleeps' = sleeps + 1
  /\ slept' = slept + retry_delay
  /\ pc' = "fresh"
  /\ UNCHANGED <<site, max_retries, retry_delay, is_streaming, attempt, client,
                 pool, handles, requests, err, last_error, first_error, response,
                 body, raised, result, http_status, upStatus, upBody, upProduced>>
  /\ trace' = Append(trace, "sleep")
  /\ UNCHANGED <<relayVars, dlVars, auxRest, timeoutVars>>

\* client = await get_fresh_http_client()
RwrGetFresh ==
  /\ site = "request_with_retry" /\ pc = "fresh"
  /\ handles' = GetFreshHttpClient(handles)
  /\ client' = Len(handles')
  /\ pc' = "request"
  /\ UNCHANGED <<site, max_retries, retry_delay, is_streaming, attempt, pool,
                 sleeps, slept, requests, err, last_error, first_error, response,
                 body, raised, result, http_status, upStatus, upBody, upProduced>>
  /\ timeout' = RetryTimeout /\ kw_timeout' = RetryTimeout
  /\ UNCHANGED first_timeout
  /\ trace' = Append(trace, "open")
  /\ UNCHANGED <<relayVars, dlVars, auxRest>>

\* response = await client.request(method, url, **kwargs): a response arrives
RwrRequestResponds(st) ==
  /\ site = "request_with_retry" /\ pc = "request"
  /\ requests' = requests + 1
  /\ pool' = PoolAfterRequest(pool, client)
  /\ handles' = HandlesAfterRequest(handles, client)
  /\ response' = st
  /\ pc' = "got_response"
  /\ UNCHANGED <<site, max_retries, retry_delay, is_streaming, attempt, client,
                 sleeps, slept, err, last_error, first_error, body, raised,
                 result, http_status, upStatus, upBody, upProduced>>
  /\ trace' = Append(trace, "response")
  /\ UNCHANGED <<relayVars, dlVars, auxRest, timeoutVars>>

\* RwrReturn retrying a response with a 5xx status instead of returning it
RwrReturnRetries5xx ==
  /\ site = "request_with_retry" /\ pc = "got_response"
  /\ handles' = CloseIfFresh(handles, attempt, client)
  /\ IF response >= 500 /\ attempt < max_retries - 1
       THEN /\ attempt' = attempt + 1
            /\ response' = NoStatus
            /\ pc' = "loop"
            /\ UNCHANGED result
       ELSE /\ result' = "response"
            /\ pc' = "done"
            /\ UNCHANGED <<attempt, response>>
  /\ UNCHANGED <<site, max_retries, retry_delay, is_streaming, client, pool,
                 sleeps, slept, requests, err, last_error, first_error, body,
                 raised, http_status, upStatus, upBody, upProduced>>
  /\ trace' = TraceCloseIfFresh(trace, attempt)
  /\ UNCHANGED <<relayVars, dlVars, auxRest, timeoutVars>>

\* `if attempt > 0: await client.aclose()` then `return response`
RwrReturn ==
  /\ site = "request_with_retry" /\ pc = "got_response"
  /\ handles' = CloseIfFresh(handles, attempt, client)
  /\ result' = "response"
  /\ pc' = "done"
  /\ UNCHANGED <<site, max_retries, retry_delay, is_streaming, attempt, client,
                 pool, sleeps, slept, requests, err, last_error, first_error,
                 response, body, raised, http_status, upStatus, upBody, upProduced>>
  /\ trace' = TraceCloseIfFresh(trace, attempt)
  /\ UNCHANGED <<relayVars, dlVars, auxRest, timeoutVars>>

\* client.request raises ConnectError, RemoteProtocolError or TimeoutException
RwrRequestFails(e) ==
  /\ site = "request_with_retry" /\ pc = "request"
  /\ requests' = requests + 1
  /\ pool' = PoolAfterRequest(pool, client)
  /\ handles' = HandlesAfterRequest(handles, client)
  /\ err' = e
  /\ first_error' = IF attempt = 0 THEN e ELSE first_error
  /\ pc' = "except"
  /\ UNCHANGED <<site, max_retries, retry_delay, is_streaming, attempt, client,
                 sleeps, slept, last_error, response, body, raised, result,
                 http_status, upStatus, upBody, upProduced>>
  /\ trace' = Append(trace, "retryable")
  /\ UNCHANGED <<relayVars, dlVars, auxRest, timeoutVars>>

\* re-raising the error of the first attempt instead of the current one
RwrReraisedFirst(e, first) == first

\* the exception a failed call of request_with_retry re-raises (`raise`)
RwrReraised(e, first) == e

\* the except clause: record the error, close a fresh client, re-raise on the
\* last attempt, otherwise go on with the next attempt
RwrExcept ==
  /\ site = "request_with_retry" /\ pc = "except"
  /\ last_error' = err
  /\ handles' = CloseIfFresh(handles, attempt, client)
  /\ IF attempt = max_retries - 1
       THEN /\ raised' = RwrReraised(err, first_error)
            /\ result' = "raised"
            /\ pc' = "done"
            /\ UNCHANGED attempt
       ELSE /\ attempt' = attempt + 1
            /\ pc' = "loop"
            /\ UNCHANGED <<raised, result>>
  /\ UNCHANGED <<site, max_retries, retry_delay, is_streaming, client, pool,
                 sleeps, slept, requests, err, first_error, response, body,
                 http_status, upStatus, upBody, upProduced>>
  /\ trace' = TraceCloseIfFresh(trace, attempt)
  /\ UNCHANGED <<relayVars, dlVars, auxRest, timeoutVars>>

\* client.request raises an exception the except clause does not name: it
\* leaves request_with_retry at once
RwrRequestRaises(e) ==
  /\ site = "request_with_retry" /\ pc = "request"
  /\ requests' = requests + 1
  /\ pool' = PoolAfterRequest(pool, client)
  /\ handles' = HandlesAfterRequest(handles, client)
  /\ err' = e
  /\ raised' = e
  /\ result' = "raised"
  /\ pc' = "done"
  /\ UNCHANGED <<site, max_retries, retry_delay, is_streaming, attempt, client,
                 sleeps, slept, last_error, first_error, response, body,
                 http_status, upStatus, upBody, upProduced>>
  /\ trace' = Append(trace, "other")
  /\ UNCHANGED <<relayVars, dlVars, auxRest, timeoutVars>>

NextRwr ==
  \/ \E mr \in RetriesArgs, rd \in DelayArgs, t \in TimeoutArgs :
       RwrCall(mr, rd, t)
  \/ RwrUsePooled
  \/ RwrSleep
  \/ RwrGetFresh
  \/ \E st \in StatusCodes : RwrRequestResponds(st)
  \/ RwrReturn
  \/ \E e \in RetryableErrors : RwrRequestFails(e)
  \/ RwrExcept
  \/ \E e \in OtherErrors : RwrRequestRaises(e)

(***************************************************************************)
(* chat_completion (routers/chat.py): the inline retry loop, the handling  *)
(* of the response and the mapping of the exceptions that leave the loop   *)
(***************************************************************************)
\* all sequences over S of length at most n
SeqsUpTo(S, n) == UNION {[1..k -> S] : k \in 0..n}

\* the event-stream bodies the upstream answers a streaming chat with
ChatLines == {"", "data: {a}", "data: [DONE]"}
ChatBodies == SeqsUpTo(ChatLines, MaxChatLines)

\* httpx.RequestError and its subclasses among the exceptions of the model
RequestErrors == RetryableErrors \cup {"ReadError"}

\* the outer handlers: `except httpx.TimeoutException` gives 504,
\* `except httpx.RequestError` gives 502, anything else propagates
ChatHttpStatus(e) ==
  IF e = "TimeoutException" THEN 504
  ELSE IF e \in RequestErrors THEN 502
  ELSE NoStatus

\* the "stream" field of a chat request body: not given, null, true, false
StreamFields == {"absent", "null", "true", "false"}

\* ChatRequest validation: stream: Optional[bool] = False
ChatRequestStream(field) ==
  IF field = "absent" THEN "False"
  ELSE IF field = "null" THEN "None"
  ELSE IF field = "true" THEN "True"
  ELSE "False"

\* chat_request.model_dump(exclude_none=True).get("stream", True)
IsStreaming(field) ==
  IF ChatRequestStream(field) = "None" THEN TRUE
  ELSE ChatRequestStream(field) = "True"

\* a POST /api/chat whose body has the stream field as given
ChatCall(field) ==
  /\ pc = "idle"
  /\ site' = "chat_completion"
  /\ stream_field' = field
  /\ is_streaming' = IsStreaming(field)
  /\ max_retries' = ChatMaxRetries /\ retry_delay' = ChatRetryDelay
  /\ attempt' = 0 /\ last_error' = NoError /\ response' = NoStatus
  /\ pc' = "loop"
  /\ UNCHANGED <<client, pool, handles, sleeps, slept, requests, err,
                 first_error, body, raised, result, http_status, upStatus,
                 upBody, upProduced>>
  /\ UNCHANGED <<gw_req, gw_status, gw_effect, sent, gw_count>>
  /\ UNCHANGED <<relayVars, dlVars, polled, lifeVars, poolVars, healthVars,
                 timeoutVars, trace>>

\* attempt == 0: client_to_use = get_http_client()
ChatUsePooled ==
  /\ site = "chat_completion" /\ pc = "loop" /\ attempt = 0
  /\ pool' = GetHttpClient(pool)
  /\ client' = PooledId
  /\ pc' = "request"
  /\ UNCHANGED <<site, max_retries, retry_delay, is_streaming, attempt,
                 handles, sleeps, slept, requests, err, last_error,
                 first_error, response, body, raised, result, http_status,
                 upStatus, upBody, upProduced>>
  /\ timeout' = IF is_streaming THEN StreamTimeout ELSE UpstreamTimeout
  /\ first_timeout' = timeout'
  /\ UNCHANGED kw_timeout
  /\ trace' = Append(trace, "pooled")
  /\ UNCHANGED <<relayVars, dlVars, auxRest>>

\* attempt > 0: await asyncio.sleep(retry_delay)
ChatSleep ==
  /\ site = "chat_completion" /\ pc = "loop" /\ attempt > 0
  /\ sleeps' = sleeps + 1
  /\ slept' = slept + retry_delay
  /\ pc' = "fresh"
  /\ UNCHANGED <<site, max_retries, retry_delay, is_streaming, attempt,
                 client, pool, handles, requests, err, last_error,
                 first_error, response, body, raised, result, http_status,
                 upStatus, upBody, upProduced>>
  /\ trace' = Append(trace, "sleep")
  /\ UNCHANGED <<relayVars, dlVars, auxRest, timeoutVars>>

\* client_to_use = await get_fresh_http_client()
ChatGetFresh ==
  /\ site = "chat_completion" /\ pc = "fresh"
  /\ handles' = GetFreshHttpClient(handles)
  /\ client' = Len(handles')
  /\ pc' = "request"
  /\ UNCHANGED <<site, max_retries, retry_delay, is_streaming, attempt, pool,
                 sleeps, slept, requests, err, last_error, first_error,
                 response, body, raised, result, http_status, upStatus,
                 upBody, upProduced>>
  /\ timeout' = RetryTimeout
  /\ UNCHANGED <<kw_timeout, first_timeout>>
  /\ trace' = Append(trace, "open")
  /\ UNCHANGED <<relayVars, dlVars, auxRest>>

\* await client_to_use.post(...): the request is sent and the upstream starts
\* to answer with status st and the body lines; post() is not a streaming
\* call, it returns once the whole body has been read
ChatUpstreamAnswers(st, lines) ==
  /\ site = "chat_completion" /\ pc = "request"
  /\ lines # <<>> => (st = 200 /\ is_streaming)
  /\ requests' = requests + 1
  /\ pool' = PoolAfterRequest(pool, client)
  /\ handles' = HandlesAfterRequest(handles, client)
  /\ upStatus' = st /\ upBody' = lines /\ upProduced' = 0
  /\ body' = <<>>
  /\ pc' = "reading_body"
  /\ UNCHANGED <<site, max_retries, retry_delay, is_streaming, attempt,
                 client, sleeps, slept, err, last_error, first_error,
                 response, raised, result, http_status>>
  /\ UNCHANGED <<relayVars, dlVars, auxVars>>

\* the upstream produces the next line of the body; post() reads it
UpstreamProduces ==
  /\ site = "chat_completion" /\ pc = "reading_body"
  /\ upProduced < Len(upBody)
  /\ upProduced' = upProduced + 1
  /\ body' = Append(body, upBody[upProduced + 1])
  /\ UNCHANGED <<site, pc, max_retries, retry_delay, is_streaming, attempt,
                 client, pool, handles, sleeps, slept, requests, err,
                 last_error, first_error, response, raised, result,
                 http_status, upStatus, upBody>>
  /\ UNCHANGED <<relayVars, dlVars, auxVars>>

\* the body is complete: post() returns the response
ChatPostReturns ==
  /\ site = "chat_completion" /\ pc = "reading_body"
  /\ upProduced = Len(upBody)
  /\ response' = upStatus
  /\ pc' = "got_response"
  /\ UNCHANGED <<site, max_retries, retry_delay, is_streaming, attempt,
                 client, pool, handles, sleeps, slept, requests, err,
                 last_error, first_error, body, raised, result, http_status,
                 upStatus, upBody, upProduced>>
  /\ trace' = Append(trace, "response")
  /\ UNCHANGED <<relayVars, dlVars, auxRest, timeoutVars>>

\* post() raises ConnectError, RemoteProtocolError or TimeoutException, before
\* a response arrives or (the last two) while its body is read
ChatRequestFails(e) ==
  /\ site = "chat_completion"
  /\ \/ /\ pc = "request"
        /\ requests' = requests + 1
        /\ pool' = PoolAfterRequest(pool, client)
        /\ handles' = HandlesAfterRequest(handles, client)
     \/ /\ pc = "reading_body" /\ e # "ConnectError"
        /\ UNCHANGED <<requests, pool, handles>>
  /\ body' = <<>>
  /\ err' = e
  /\ first_error' = IF attempt = 0 THEN e ELSE first_error
  /\ pc' = "except"
  /\ UNCHANGED <<site, max_retries, retry_delay, is_streaming, attempt,
                 client, sleeps, slept, last_error, response, raised, result,
                 http_status, upStatus, upBody, upProduced>>
  /\ trace' = Append(trace, "retryable")
  /\ UNCHANGED <<relayVars, dlVars, auxRest, timeoutVars>>

\* the exception a chat call's retry loop re-raises (`raise`)
ChatReraised(e, first) == e

\* the except clause of the loop without the aclose() of the fresh client
ChatExceptLeavesFreshOpen ==
  /\ site = "chat_completion" /\ pc = "except"
  /\ last_error' = err
  /\ IF attempt = max_retries - 1
       THEN /\ raised' = ChatReraised(err, first_error)
            /\ http_status' = ChatHttpStatus(raised')
            /\ result' = "http_error"
            /\ pc' = "done"
            /\ UNCHANGED attempt
       ELSE /\ attempt' = attempt + 1
            /\ pc' = "loop"
            /\ UNCHANGED <<raised, result, http_status>>
  /\ UNCHANGED <<site, max_retries, retry_delay, is_streaming, client, pool,
                 handles, sleeps, slept, requests, err, first_error, response,
                 body, upStatus, upBody, upProduced, trace>>
  /\ UNCHANGED <<relayVars, dlVars, auxRest, timeoutVars>>

\* the except clause of the loop; on the last attempt the exception is
\* re-raised and mapped by the outer handlers to an HTTPException
ChatExcept ==
  /\ site = "chat_completion" /\ pc = "except"
  /\ last_error' = err
  /\ handles' = CloseIfFresh(handles, attempt, client)
  /\ IF attempt = max_retries - 1
       THEN /\ raised' = ChatReraised(err, first_error)
            /\ http_status' = ChatHttpStatus(raised')
            /\ result' = "http_error"
            /\ pc' = "done"
            /\ UNCHANGED attempt
       ELSE /\ attempt' = attempt + 1
            /\ pc' = "loop"
            /\ UNCHANGED <<raised, result, http_status>>
  /\ UNCHANGED <<site, max_retries, retry_delay, is_streaming, client, pool,
                 sleeps, slept, requests, err, first_error, response, body,
                 upStatus, upBody, upProduced>>
  /\ trace' = TraceCloseIfFresh(trace, attempt)
  /\ UNCHANGED <<relayVars, dlVars, auxRest, timeoutVars>>

\* post() raises an exception the loop's except clause does not name: it
\* leaves the loop at once; the outer handlers map a RequestError to 502
ChatRequestRaises(e) ==
  /\ site = "chat_completion"
  /\ \/ /\ pc = "request"
        /\ requests' = requests + 1
        /\ pool' = PoolAfterRequest(pool, client)
        /\ handles' = HandlesAfterRequest(handles, client)
     \/ /\ pc = "reading_body" /\ e = "ReadError"
        /\ UNCHANGED <<requests, pool, handles>>
  /\ body' = <<>>
  /\ err' = e
  /\ raised' = e
  /\ http_status' = ChatHttpStatus(e)
  /\ result' = IF ChatHttpStatus(e) = NoStatus THEN "raised" ELSE "http_error"
  /\ pc' = "done"
  /\ UNCHANGED <<site, max_retries, retry_delay, is_streaming, attempt,
                 client, sleeps, slept, last_error, first_error, response,
                 upStatus, upBody, upProduced>>
  /\ trace' = Append(trace, "other")
  /\ UNCHANGED <<relayVars, dlVars, auxRest, timeoutVars>>

\* `if attempt > 0: await client_to_use.aclose()`, `break`, and the code after
\* the loop: an error status raises HTTPException with that status, a
\* streaming request returns StreamingResponse(stream_chat_response(...)),
\* whose generator is created but not started, otherwise the JSON is returned
ChatBreak ==
  /\ site = "chat_completion" /\ pc = "got_response"
  /\ handles' = CloseIfFresh(handles, attempt, client)
  /\ pc' = "done"
  /\ IF response >= 400
       THEN /\ result' = "http_error"
            /\ http_status' = response
            /\ UNCHANGED relayVars
       ELSE IF is_streaming
       THEN /\ result' = "streaming"
            /\ rpc' = "created"
            /\ upLines' = body
            /\ failAt' = -1
            /\ UNCHANGED <<http_status, rpos, cur, out, closes, rexit>>
       ELSE /\ result' = "json"
            /\ UNCHANGED <<http_status, relayVars>>
  /\ UNCHANGED <<site, max_retries, retry_delay, is_streaming, attempt,
                 client, pool, sleeps, slept, requests, err, last_error,
                 first_error, response, body, raised, upStatus, upBody,
                 upProduced>>
  /\ trace' = TraceCloseIfFresh(trace, attempt)
  /\ UNCHANGED <<dlVars, auxRest, timeoutVars>>

NextChat ==
  \/ \E field \in StreamFields : ChatCall(field)
  \/ ChatUsePooled
  \/ ChatSleep
  \/ ChatGetFresh
  \/ \E st \in StatusCodes, lines \in ChatBodies : ChatUpstreamAnswers(st, lines)
  \/ UpstreamProduces
  \/ ChatPostReturns
  \/ \E e \in RetryableErrors : ChatRequestFails(e)
  \/ ChatExcept
  \/ \E e \in OtherErrors : ChatRequestRaises(e)
  \/ ChatBreak

(***************************************************************************)
(* stream_chat_response (utils/streaming.py): an async generator.  It runs *)
(* only while its consumer awaits the next frame; at a yield it is         *)
(* suspended until the consumer resumes it or gives it up, in which case   *)
(* the event loop closes the generator (GeneratorExit at the yield).       *)
(***************************************************************************)
\* the consumer asks for the first frame: the generator enters the try
\* block and the `async for`
RelayStart ==
  /\ rpc = "created"
  /\ rpc' = "reading"
  /\ UNCHANGED <<upLines, failAt, rpos, cur, out, closes, rexit>>
  /\ UNCHANGED <<execVars, dlVars, auxVars>>

\* Emitted dropping the sentinel line instead of forwarding it
EmittedWithoutSentinel(line) ==
  IF Strip(line) = "" THEN <<>>
  ELSE IF Strip(line) = SentinelLine THEN <<>>
  ELSE IF StartsWithData(line) THEN <<Frame(line)>>
  ELSE <<>>

\* the frames one line adds to the output: nothing for a blank line
\* (`if not line.strip(): continue`) or a line without the data marker,
\* the line itself as a frame if it starts with "data: "
Emitted(line) ==
  IF Strip(line) = "" THEN <<>>
  ELSE IF StartsWithData(line) THEN <<Frame(line)>>
  ELSE <<>>

\* aiter_lines() delivers the next line; a data line is yielded
RelayReadLine ==
  /\ rpc = "reading"
  /\ rpos < Len(upLines) /\ failAt # rpos
  /\ rpos' = rpos + 1
  /\ out' = out \o Emitted(upLines[rpos + 1])
  /\ IF Emitted(upLines[rpos + 1]) # <<>>
       THEN /\ cur' = upLines[rpos + 1]
            /\ rpc' = "yielded"
       ELSE UNCHANGED <<cur, rpc>>
  /\ UNCHANGED <<upLines, failAt, closes, rexit>>
  /\ UNCHANGED <<execVars, dlVars, auxVars>>

\* RelayResume going on with the next line after the sentinel frame
RelayResumeIgnoresSentinel ==
  /\ rpc = "yielded"
  /\ rpc' = "reading"
  /\ UNCHANGED <<upLines, failAt, rpos, cur, out, closes, rexit>>
  /\ UNCHANGED <<execVars, dlVars, auxVars>>


\* the consumer asks for the next frame after a data frame:
\* `if line.strip() == "data: [DONE]": break`, otherwise the loop goes on
RelayResume ==
  /\ rpc = "yielded"
  /\ IF Strip(cur) = SentinelLine
       THEN rpc' = "finally" /\ rexit' = "sentinel"
       ELSE rpc' = "reading" /\ UNCHANGED rexit
  /\ UNCHANGED <<upLines, failAt, rpos, cur, out, closes>>
  /\ UNCHANGED <<execVars, dlVars, auxVars>>

\* aiter_lines() is exhausted: the loop ends
RelayExhausted ==
  /\ rpc = "reading"
  /\ rpos = Len(upLines) /\ failAt # rpos
  /\ rpc' = "finally"
  /\ rexit' = "exhausted"
  /\ UNCHANGED <<upLines, failAt, rpos, cur, out, closes>>
  /\ UNCHANGED <<execVars, dlVars, auxVars>>

\* RelayReadFails ending the stream without the error frame
RelayReadFailsSilently ==
  /\ rpc = "reading"
  /\ rpos = failAt
  /\ rpc' = "finally"
  /\ rexit' = "read_error"
  /\ UNCHANGED <<upLines, failAt, rpos, cur, out, closes>>
  /\ UNCHANGED <<execVars, dlVars, auxVars>>

\* aiter_lines() raises: `except Exception` yields the error frame
RelayReadFails ==
  /\ rpc = "reading"
  /\ rpos = failAt
  /\ out' = Append(out, ErrorFrame)
  /\ rpc' = "yielded_error"
  /\ rexit' = "read_error"
  /\ UNCHANGED <<upLines, failAt, rpos, cur, closes>>
  /\ UNCHANGED <<execVars, dlVars, auxVars>>

\* the consumer asks for the next frame after the error frame: the except
\* block ends
RelayResumeAfterError ==
  /\ rpc = "yielded_error"
  /\ rpc' = "finally"
  /\ UNCHANGED <<upLines, failAt, rpos, cur, out, closes, rexit>>
  /\ UNCHANGED <<execVars, dlVars, auxVars>>

\* ConsumerAbandons with the close after the loop rather than in a finally
\* block: GeneratorExit ends the generator without the close
ConsumerAbandonsNoFinally ==
  /\ rpc = "yielded"
  /\ rpc' = "done"
  /\ rexit' = "abandoned"
  /\ UNCHANGED <<upLines, failAt, rpos, cur, out, closes>>
  /\ UNCHANGED <<execVars, dlVars, auxVars>>

\* the consumer gives the stream up while the generator is suspended at the
\* yield of a data frame: GeneratorExit is raised there; it is not an
\* Exception, so only the finally block runs
ConsumerAbandons ==
  /\ rpc = "yielded"
  /\ rpc' = "finally"
  /\ rexit' = "abandoned"
  /\ UNCHANGED <<upLines, failAt, rpos, cur, out, closes>>
  /\ UNCHANGED <<execVars, dlVars, auxVars>>

\* the same at the yield of the error frame
ConsumerAbandonsAfterError ==
  /\ rpc = "yielded_error"
  /\ rpc' = "finally"
  /\ UNCHANGED <<upLines, failAt, rpos, cur, out, closes, rexit>>
  /\ UNCHANGED <<execVars, dlVars, auxVars>>

\* the consumer is cancelled while the generator awaits the next line:
\* CancelledError is raised at the await; it is not an Exception
ConsumerCancels ==
  /\ rpc = "reading"
  /\ rpc' = "finally"
  /\ rexit' = "abandoned"
  /\ UNCHANGED <<upLines, failAt, rpos, cur, out, closes>>
  /\ UNCHANGED <<execVars, dlVars, auxVars>>

\* finally: await upstream_response.aclose()
RelayFinally ==
  /\ rpc = "finally"
  /\ closes' = closes + 1
  /\ rpc' = "done"
  /\ UNCHANGED <<upLines, failAt, rpos, cur, out, rexit>>
  /\ UNCHANGED <<execVars, dlVars, auxVars>>

\* the steps of a relay whose response body was read before it started
NextRelayBuffered ==
  \/ RelayStart
  \/ RelayReadLine
  \/ RelayResume
  \/ RelayExhausted
  \/ ConsumerAbandons
  \/ ConsumerCancels
  \/ RelayFinally

\* the steps of a relay on any response
NextRelay ==
  \/ NextRelayBuffered
  \/ RelayReadFails
  \/ RelayResumeAfterError
  \/ ConsumerAbandonsAfterError

\* stream_chat_response is given a response whose body has the lines upLines
\* and whose reading raises after failAt lines (never if failAt = -1)
RelayInit ==
  /\ ExecIdle /\ DownloadIdle /\ AuxIdle
  /\ rpc = "created"
  /\ upLines \in SeqsUpTo(Lines, MaxLines)
  /\ failAt \in -1..Len(upLines)
  /\ rpos = 0 /\ cur = "" /\ out = <<>> /\ closes = 0 /\ rexit = "none"

(***************************************************************************)
(* Model listing endpoint (routers/chat.py, list_models)                   *)
(***************************************************************************)
\* GET /api/models: http_client = get_http_client()
ListModelsCall ==
  /\ pc = "idle"
  /\ site' = "list_models"
  /\ pool' = GetHttpClient(pool)
  /\ client' = PooledId
  /\ attempt' = 0
  /\ response' = NoStatus
  /\ pc' = "request"
  /\ UNCHANGED <<max_retries, retry_delay, is_streaming, handles, sleeps,
                 slept, requests, err, last_error, first_error, body, raised,
                 result, http_status, upStatus, upBody, upProduced>>
  /\ UNCHANGED <<relayVars, dlVars, polled, lifeVars, poolVars, gateVars,
                 healthVars, timeoutVars, trace>>

\* get(upstream_url) returns a response with status st; a fresh client is
\* closed in the finally block. response.raise_for_status() raises
\* HTTPStatusError for an error status; it is not a RequestError, so the
\* except clause does not catch it and it leaves the handler. Otherwise the
\* JSON body is returned
ListModelsResponds(st) ==
  /\ site = "list_models" /\ pc = "request"
  /\ requests' = requests + 1
  /\ pool' = PoolAfterRequest(pool, client)
  /\ handles' = CloseIfFresh(HandlesAfterRequest(handles, client), attempt, client)
  /\ response' = st
  /\ IF st >= 400
       THEN /\ raised' = "HTTPStatusError"
            /\ result' = "raised"
       ELSE /\ result' = "json"
            /\ UNCHANGED raised
  /\ pc' = "done"
  /\ UNCHANGED <<site, max_retries, retry_delay, is_streaming, attempt,
                 client, sleeps, slept, err, last_error, first_error, body,
                 http_status, upStatus, upBody, upProduced>>
  /\ UNCHANGED <<relayVars, dlVars, polled, lifeVars, poolVars, gateVars,
                 healthVars, timeoutVars, trace>>

\* get(upstream_url) raises e. A ConnectError of the shared client leads to
\* the retry with a fresh client; any other RequestError, and any
\* RequestError of the fresh client, is answered with 502; an exception that
\* is not a RequestError leaves the handler
ListModelsFails(e) ==
  /\ site = "list_models" /\ pc = "request"
  /\ requests' = requests + 1
  /\ pool' = PoolAfterRequest(pool, client)
  /\ handles' = CloseIfFresh(HandlesAfterRequest(handles, client), attempt, client)
  /\ err' = e
  /\ IF attempt = 0 /\ e = "ConnectError"
       THEN /\ pc' = "fresh"
            /\ UNCHANGED <<raised, result, http_status>>
       ELSE /\ raised' = e
            /\ http_status' = IF e \in RequestErrors THEN 502 ELSE NoStatus
            /\ result' = IF e \in RequestErrors THEN "http_error" ELSE "raised"
            /\ pc' = "done"
  /\ UNCHANGED <<site, max_retries, retry_delay, is_streaming, attempt,
                 client, sleeps, slept, last_error, first_error, response,
                 body, upStatus, upBody, upProduced>>
  /\ UNCHANGED <<relayVars, dlVars, polled, lifeVars, poolVars, gateVars,
                 healthVars, timeoutVars, trace>>

\* fresh_client = await get_fresh_http_client()
ListModelsGetFresh ==
  /\ site = "list_models" /\ pc = "fresh"
  /\ handles' = GetFreshHttpClient(handles)
  /\ client' = Len(handles')
  /\ attempt' = 1
  /\ pc' = "request"
  /\ UNCHANGED <<site, max_retries, retry_delay, is_streaming, pool, sleeps,
                 slept, requests, err, last_error, first_error, response,
                 body, raised, result, http_status, upStatus, upBody,
                 upProduced>>
  /\ UNCHANGED <<relayVars, dlVars, polled, lifeVars, poolVars, gateVars,
                 healthVars, timeoutVars, trace>>

NextListModels ==
  \/ ListModelsCall
  \/ \E st \in StatusCodes : ListModelsResponds(st)
  \/ \E e \in RetryableErrors \cup OtherErrors : ListModelsFails(e)
  \/ ListModelsGetFresh

(***************************************************************************)
(* Specifications                                                          *)
(***************************************************************************)
\* the gateway: one call of request_with_retry or of the chat endpoint
Next == NextRwr \/ NextChat \/ NextRelayBuffered
Spec == Init /\ [][Next]_vars

\* the two proxied operations: a chat completion or a model listing
NextProxy == NextChat \/ NextRelayBuffered \/ NextListModels
SpecProxy == Init /\ [][NextProxy]_vars

\* the stream relay on its own
SpecRelay == RelayInit /\ [][NextRelay]_vars

(***************************************************************************)
(* Claims about the executor, checked under Spec                           *)
(***************************************************************************)
\* C1: one executor call makes at most max_retries upstream attempts, does
\* not sleep before attempt 1, sleeps exactly once, for retry_delay, before
\* each later attempt, and has slept (attempts made - 1) times when it ends.
C1_BoundedAttemptsAndSleeps ==
  /\ requests <= max_retries
  /\ slept = sleeps * retry_delay
  /\ pc = "idle" => (requests = 0 /\ sleeps = 0)
  /\ pc = "loop" =>
       (requests = attempt /\ sleeps = IF attempt = 0 THEN 0 ELSE attempt - 1)
  /\ pc \in {"fresh", "request"} => (requests = attempt /\ sleeps = attempt)
  /\ pc \in {"reading_body", "got_response", "except"} =>
       (requests = attempt + 1 /\ sleeps = attempt)
  /\ pc = "done" => (requests >= 1 /\ sleeps = requests - 1)

\* a call of request_with_retry that ended after three attempts
C1_Witness ==
  /\ site = "request_with_retry" /\ pc = "done"
  /\ requests = 3 /\ sleeps = 2 /\ slept = 2 * DefaultRetryDelay

\* C2: when the executor starts the next attempt, returns or raises, no
\* fresh client is open, whatever the request of the attempt did.
C2_NoFreshHandleLeak ==
  pc \in {"loop", "done"} => \A i \in DOMAIN handles : ~handles[i].open

\* C3: attempt 1 uses the shared client, every later attempt uses the fresh
\* client created for it, which serves that one request; the shared client
\* serves no retry and is never closed; after connect-refused on the shared
\* client and status 200 on attempt 2 the response is returned after two
\* attempts with one fresh client opened and closed.
C3_PooledFirstFreshAfter ==
  /\ Len(handles) <= attempt
  /\ pool.uses <= 1 /\ pool.closes = 0
  /\ \A i \in DOMAIN handles : handles[i].uses <= 1 /\ handles[i].closes <= 1
  /\ pc \in {"request", "reading_body", "got_response", "except"} =>
       /\ attempt = 0 => (client = PooledId /\ pool.created)
       /\ attempt > 0 => (client = attempt /\ Len(handles) = attempt)
  /\ pc \in {"reading_body", "got_response", "except"} =>
       /\ attempt = 0 => pool.uses = 1
       /\ attempt > 0 => (handles[client].uses = 1 /\ handles[client].open)
  /\ (/\ site = "request_with_retry" /\ pc = "done" /\ result = "response"
      /\ first_error = "ConnectError" /\ attempt = 1 /\ response = 200) =>
       /\ requests = 2 /\ pool.uses = 1
       /\ handles = <<[open |-> FALSE, uses |-> 1, closes |-> 1]>>

\* connect-refused on the shared client, then status 200 on a fresh client
C3_Witness ==
  /\ site = "request_with_retry" /\ pc = "done" /\ result = "response"
  /\ first_error = "ConnectError" /\ attempt = 1 /\ response = 200
  /\ requests = 2 /\ Len(handles) = 1

\* what holds of a call once a response has been received
C4_ResponseInv ==
  /\ attempt > 0 => last_error \in RetryableErrors
  /\ response # NoStatus =>
       /\ pc \in {"got_response", "done"}
       /\ requests = attempt + 1
       /\ raised = NoError
  /\ (pc = "done" /\ response # NoStatus) =>
       /\ site = "request_with_retry" => result = "response"
       /\ site = "chat_completion" =>
            \/ result = "http_error" /\ http_status = response
            \/ result \in {"streaming", "json"} /\ response < 400

\* no step after a response issues a request or replaces the response
C4_ResponseStep ==
  response # NoStatus =>
    (requests' = requests /\ response' = response /\ attempt' = attempt)

\* C4: the executor starts another attempt only after a retryable transport
\* failure; once an attempt has received a response, whatever its status,
\* no further attempt is made and that response is what the call ends with.
C4_ResponseIsFinal == []C4_ResponseInv /\ [][C4_ResponseStep]_vars

\* request_with_retry returned a response with status 500 from a retry
C4_Witness ==
  /\ site = "request_with_retry" /\ pc = "done" /\ result = "response"
  /\ response = 500 /\ attempt = 1 /\ max_retries = 3

\* C5: a call whose attempts all failed with retryable errors raises the
\* error of its last attempt, and does so after exactly max_retries attempts.
C5_RaisesLastError ==
  /\ (pc = "done" /\ raised \in RetryableErrors) =>
       /\ requests = max_retries
       /\ attempt = max_retries - 1
       /\ raised = err /\ raised = last_error
  /\ (pc = "done" /\ response = NoStatus /\ err \in RetryableErrors) =>
       (raised = err /\ requests = max_retries)

\* three failed attempts, the first and the last with different errors
C5_Witness ==
  /\ site = "request_with_retry" /\ pc = "done" /\ result = "raised"
  /\ requests = 3 /\ max_retries = 3
  /\ first_error = "ConnectError" /\ raised = "TimeoutException"

(***************************************************************************)
(* Claims about the stream relay, checked under SpecRelay                  *)
(***************************************************************************)
\* the lines of s that are not blank
NonBlank(s) == SelectSeq(s, LAMBDA l : Strip(l) # "")

\* each line of s followed by a blank line
AsFrames(s) == [i \in 1..Len(s) |-> <<s[i], "\n\n">>]

IsPrefix(s, t) == Len(s) <= Len(t) /\ \A i \in 1..Len(s) : s[i] = t[i]

\* the payload lines of valid data frames
DataLines == {"data: {a}", "data: {b}"}

\* the body is N data frames followed by the sentinel frame, and reading it
\* does not fail
C6_FramedBody ==
  /\ failAt = -1
  /\ Len(NonBlank(upLines)) >= 1
  /\ NonBlank(upLines)[Len(NonBlank(upLines))] = SentinelLine
  /\ \A i \in 1..(Len(NonBlank(upLines)) - 1) : NonBlank(upLines)[i] \in DataLines

\* C6: given N valid data frames followed by the sentinel frame, the relay
\* emits exactly those N frames and then the sentinel frame, in order, each
\* ended by a blank line, and closes the upstream response exactly once.
C6_FramesThenSentinel ==
  C6_FramedBody =>
    /\ IsPrefix(out, AsFrames(NonBlank(upLines)))
    /\ closes <= 1
    /\ (rpc = "done" /\ rexit # "abandoned") =>
         /\ rexit = "sentinel"
         /\ out = AsFrames(NonBlank(upLines))
         /\ closes = 1

\* two data frames and the sentinel were relayed to the end
C6_Witness ==
  /\ upLines = <<"data: {a}", "data: {b}", "data: [DONE]">> /\ failAt = -1
  /\ rpc = "done" /\ rexit = "sentinel"
  /\ Len(out) = 3 /\ closes = 1

\* the lines read before the failure are valid data frames
C7_FailsAfterFrames ==
  /\ failAt >= 0
  /\ \A i \in 1..failAt : Strip(upLines[i]) = "" \/ upLines[i] \in DataLines

\* C7: if reading fails after K valid data frames were forwarded, the output
\* is those K frames followed by exactly one error frame and nothing else,
\* and the upstream response is still closed.
C7_ErrorFrameAfterFailure ==
  C7_FailsAfterFrames =>
    /\ closes <= 1
    /\ rexit = "read_error" =>
         /\ out = AsFrames(NonBlank(SubSeq(upLines, 1, failAt))) \o <<ErrorFrame>>
         /\ rpc \in {"yielded_error", "finally", "done"}
         /\ rpc = "done" => closes = 1
    /\ rexit # "read_error" =>
         /\ \A i \in 1..Len(out) : out[i] # ErrorFrame
         /\ IsPrefix(out, AsFrames(NonBlank(SubSeq(upLines, 1, failAt))))

\* reading failed after two data frames and the relay ended
C7_Witness ==
  /\ failAt = 2 /\ upLines[1] = "data: {a}" /\ upLines[2] = "data: {b}"
  /\ rpc = "done" /\ rexit = "read_error"
  /\ Len(out) = 3 /\ closes = 1

\* the close happens once, and exactly when the generator has ended
C8_ClosedInv ==
  /\ closes <= 1
  /\ rpc = "done" <=> closes = 1
  /\ rpc = "done" => rexit \in {"sentinel", "exhausted", "read_error", "abandoned"}

\* nothing is read or forwarded after the close
C8_ClosedStep == closes = 1 => (out' = out /\ closes' = closes /\ rpos' = rpos)

\* C8: however a relay run ends (sentinel, upstream exhausted, read failure,
\* consumer gone), the upstream response is closed exactly once, and only
\* once the generator has left its loop: nothing is forwarded after the close.
C8_ClosedExactlyOnce == []C8_ClosedInv /\ [][C8_ClosedStep]_vars

\* the consumer gave the stream up after the first frame, with lines unread
C8_Witness ==
  /\ rpc = "done" /\ rexit = "abandoned" /\ closes = 1
  /\ Len(out) = 1 /\ rpos < Len(upLines)

(***************************************************************************)
(* Claims about the streaming chat path, checked under Spec                *)
(***************************************************************************)
\* C9: a streaming chat is relayed incrementally: the gateway never holds
\* more than the one line it is forwarding, so a frame can reach the
\* downstream before the upstream has produced the frames after it.
C9_NoBuffering ==
  (site = "chat_completion" /\ is_streaming) => Len(body) - rpos <= 1

(***************************************************************************)
(* DownloadService (lib/downloads.py).  download_model and the background  *)
(* task _download_in_background run on the event loop: between two awaits  *)
(* no other coroutine runs (running names the task in such a block).       *)
(* _download_sync runs in an executor thread, so each of its statements    *)
(* can fall between any two statements of the event loop.                  *)
(***************************************************************************)
\* the kinds of exception snapshot_download raises
FetchErrors == {"HfHubHTTPError", "Exception"}

\* error_msg of the two except clauses of _download_in_background
ErrorMsg(kind) ==
  IF kind = "HfHubHTTPError" THEN "HuggingFace API error" ELSE "Download failed"

\* the state download_model writes at the start of a download
InitialState(m, now) ==
  [status |-> "downloading", progress |-> 0, model |-> m,
   started_at |-> now, error |-> "None"]

\* self._download_state[m][field] = value
\* a write of one model's field reaching every tracked entry
SetFieldAll(ds, m, field, value) ==
  [k \in DOMAIN ds |->
     IF ds[k].status = "absent" THEN ds[k] ELSE [ds[k] EXCEPT ![field] = value]]


SetField(ds, m, field, value) == [ds EXCEPT ![m] = [@ EXCEPT ![field] = value]]

\* tasks[t].pc = p
AtPc(ts, t, p) == [ts EXCEPT ![t].pc = p]

\* download_model run to the end of the fetch before it answers: the
\* acknowledgment then tells how the fetch went
DownloadModelAwaits(m) ==
  /\ running = 0
  /\ starts < MaxStarts
  /\ starts' = starts + 1
  /\ clock' = clock + 1
  /\ \E how \in {"complete", "error"} :
       /\ download_state' =
            [download_state EXCEPT
               ![m] = [InitialState(m, clock') EXCEPT !.status = how]]
       /\ tasks' = Append(tasks, [model |-> m, pc |-> "done", raised |-> "None",
                                  ack |-> how])
  /\ UNCHANGED <<running>>
  /\ UNCHANGED <<execVars, relayVars, auxVars>>

\* download_model(m): write the initial state, create the background task
\* and return {"status": "downloading", ...} (ack) without awaiting it
DownloadModel(m) ==
  /\ running = 0
  /\ starts < MaxStarts
  /\ starts' = starts + 1
  /\ clock' = clock + 1
  /\ download_state' = [download_state EXCEPT ![m] = InitialState(m, clock')]
  /\ tasks' = Append(tasks, [model |-> m, pc |-> "created", raised |-> "None",
                             ack |-> "downloading"])
  /\ UNCHANGED <<running>>
  /\ UNCHANGED <<execVars, relayVars, auxVars>>

\* _download_in_background: self._download_state[model_id]["progress"] = 10
BgSetProgress10(t) ==
  /\ running = 0
  /\ tasks[t].pc = "created"
  /\ download_state' = SetField(download_state, tasks[t].model, "progress", 10)
  /\ tasks' = AtPc(tasks, t, "set_downloading")
  /\ running' = t
  /\ UNCHANGED <<clock, starts>>
  /\ UNCHANGED <<execVars, relayVars, auxVars>>

\* self._download_state[model_id]["status"] = "downloading", then
\* await loop.run_in_executor(None, self._download_sync, model_id)
BgSetDownloading(t) ==
  /\ running = t
  /\ tasks[t].pc = "set_downloading"
  /\ download_state' = SetField(download_state, tasks[t].model, "status", "downloading")
  /\ tasks' = AtPc(tasks, t, "in_executor")
  /\ running' = 0
  /\ UNCHANGED <<clock, starts>>
  /\ UNCHANGED <<execVars, relayVars, auxVars>>

\* _download_sync (thread): self._download_state[model_id]["progress"] = 25
SyncSetProgress25(t) ==
  /\ tasks[t].pc = "in_executor"
  /\ download_state' = SetField(download_state, tasks[t].model, "progress", 25)
  /\ tasks' = AtPc(tasks, t, "fetching")
  /\ UNCHANGED <<clock, starts, running>>
  /\ UNCHANGED <<execVars, relayVars, auxVars>>

\* _download_sync (thread): snapshot_download(...) returns
SyncFetchSucceeds(t) ==
  /\ tasks[t].pc = "fetching"
  /\ tasks' = AtPc(tasks, t, "fetched")
  /\ UNCHANGED <<download_state, clock, starts, running>>
  /\ UNCHANGED <<execVars, relayVars, auxVars>>

\* _download_sync (thread): snapshot_download(...) raises
SyncFetchFails(t, kind) ==
  /\ tasks[t].pc = "fetching"
  /\ tasks' = [tasks EXCEPT ![t].pc = "failed", ![t].raised = kind]
  /\ UNCHANGED <<download_state, clock, starts, running>>
  /\ UNCHANGED <<execVars, relayVars, auxVars>>

\* _download_sync (thread): self._download_state[model_id]["progress"] = 90
SyncSetProgress90(t) ==
  /\ tasks[t].pc = "fetched"
  /\ download_state' = SetField(download_state, tasks[t].model, "progress", 90)
  /\ tasks' = AtPc(tasks, t, "thread_done")
  /\ UNCHANGED <<clock, starts, running>>
  /\ UNCHANGED <<execVars, relayVars, auxVars>>

\* the await returned: self._download_state[model_id]["progress"] = 100
BgSetProgress100(t) ==
  /\ running = 0
  /\ tasks[t].pc = "thread_done"
  /\ download_state' = SetField(download_state, tasks[t].model, "progress", 100)
  /\ tasks' = AtPc(tasks, t, "set_complete")
  /\ running' = t
  /\ UNCHANGED <<clock, starts>>
  /\ UNCHANGED <<execVars, relayVars, auxVars>>

\* the task ending after progress = 100 without writing the status
BgSetCompleteSkipsStatus(t) ==
  /\ running = t
  /\ tasks[t].pc = "set_complete"
  /\ tasks' = AtPc(tasks, t, "done")
  /\ running' = 0
  /\ UNCHANGED <<download_state, clock, starts>>
  /\ UNCHANGED <<execVars, relayVars, auxVars>>


\* self._download_state[model_id]["status"] = "complete"
BgSetComplete(t) ==
  /\ running = t
  /\ tasks[t].pc = "set_complete"
  /\ download_state' = SetField(download_state, tasks[t].model, "status", "complete")
  /\ tasks' = AtPc(tasks, t, "done")
  /\ running' = 0
  /\ UNCHANGED <<clock, starts>>
  /\ UNCHANGED <<execVars, relayVars, auxVars>>

\* the failure handler writing the whole entry, progress 0, as the except
\* branch of download_model does
BgSetErrorResetsProgress(t) ==
  /\ running = 0
  /\ tasks[t].pc = "failed"
  /\ download_state' =
       SetField(SetField(download_state, tasks[t].model, "status", "error"),
                tasks[t].model, "progress", 0)
  /\ tasks' = AtPc(tasks, t, "set_error_msg")
  /\ running' = t
  /\ UNCHANGED <<clock, starts>>
  /\ UNCHANGED <<execVars, relayVars, auxVars>>

\* the await raised: self._download_state[model_id]["status"] = "error"
BgSetError(t) ==
  /\ running = 0
  /\ tasks[t].pc = "failed"
  /\ download_state' = SetField(download_state, tasks[t].model, "status", "error")
  /\ tasks' = AtPc(tasks, t, "set_error_msg")
  /\ running' = t
  /\ UNCHANGED <<clock, starts>>
  /\ UNCHANGED <<execVars, relayVars, auxVars>>

\* self._download_state[model_id]["error"] = error_msg
BgSetErrorMsg(t) ==
  /\ running = t
  /\ tasks[t].pc = "set_error_msg"
  /\ download_state' =
       SetField(download_state, tasks[t].model, "error", ErrorMsg(tasks[t].raised))
  /\ tasks' = AtPc(tasks, t, "done")
  /\ running' = 0
  /\ UNCHANGED <<clock, starts>>
  /\ UNCHANGED <<execVars, relayVars, auxVars>>

NextDownload ==
  \/ \E m \in Models : DownloadModel(m)
  \/ \E t \in DOMAIN tasks : BgSetProgress10(t)
  \/ \E t \in DOMAIN tasks : BgSetDownloading(t)
  \/ \E t \in DOMAIN tasks : SyncSetProgress25(t)
  \/ \E t \in DOMAIN tasks : SyncFetchSucceeds(t)
  \/ \E t \in DOMAIN tasks, kind \in FetchErrors : SyncFetchFails(t, kind)
  \/ \E t \in DOMAIN tasks : SyncSetProgress90(t)
  \/ \E t \in DOMAIN tasks : BgSetProgress100(t)
  \/ \E t \in DOMAIN tasks : BgSetComplete(t)
  \/ \E t \in DOMAIN tasks : BgSetError(t)
  \/ \E t \in DOMAIN tasks : BgSetErrorMsg(t)

\* the download service on its own
SpecDownload == Init /\ [][NextDownload]_vars

(***************************************************************************)
(* DownloadService.get_progress                                            *)
(***************************************************************************)
\* the keys of _download_state in the order a dict iterates them: the order
\* of their first insertion by download_model
RECURSIVE TrackedOrder(_)
TrackedOrder(ts) ==
  IF ts = <<>> THEN <<>>
  ELSE LET front == TrackedOrder(SubSeq(ts, 1, Len(ts) - 1))
           m == ts[Len(ts)].model
       IN  IF \E i \in DOMAIN front : front[i] = m THEN front
           ELSE Append(front, m)

\* an entry picked by its position in the dict, whatever its started_at
RECURSIVE MaxByPosition(_, _)
MaxByPosition(ds, order) == ds[order[1]]

\* max(items, key=started_at): the first entry among those of greatest key
RECURSIVE MaxByStartedAt(_, _)
MaxByStartedAt(ds, order) ==
  IF Len(order) = 1 THEN ds[order[1]]
  ELSE LET best == MaxByStartedAt(ds, SubSeq(order, 1, Len(order) - 1))
           last == ds[order[Len(order)]]
       IN  IF last.started_at > best.started_at THEN last ELSE best

\* get_progress(model_id), model_id = "None" when the argument is omitted
GetProgress(ds, order, mid) ==
  IF mid # "None" /\ ds[mid].status # "absent" THEN ds[mid]
  ELSE IF order # <<>> THEN MaxByStartedAt(ds, order)
  ELSE IdlePlaceholder

\* a poll: the /download-progress route calls get_progress() with no
\* argument; other callers may name a model. It runs on the event loop, so
\* never inside a block of a background task
GetProgressCall(mid) ==
  /\ running = 0
  /\ polled' = GetProgress(download_state, TrackedOrder(tasks), mid)
  /\ UNCHANGED <<execVars, relayVars, dlVars, lifeVars, poolVars, gateVars,
                 healthVars, timeoutVars, trace>>

NextPoll ==
  \/ \E m \in Models : starts < MaxPollStarts /\ DownloadModel(m)
  \/ \E t \in DOMAIN tasks : BgSetProgress10(t)
  \/ \E t \in DOMAIN tasks : BgSetDownloading(t)
  \/ \E t \in DOMAIN tasks : SyncSetProgress25(t)
  \/ \E t \in DOMAIN tasks : SyncFetchSucceeds(t)
  \/ \E t \in DOMAIN tasks, kind \in FetchErrors : SyncFetchFails(t, kind)
  \/ \E t \in DOMAIN tasks : SyncSetProgress90(t)
  \/ \E t \in DOMAIN tasks : BgSetProgress100(t)
  \/ \E t \in DOMAIN tasks : BgSetComplete(t)
  \/ \E t \in DOMAIN tasks : BgSetError(t)
  \/ \E t \in DOMAIN tasks : BgSetErrorMsg(t)
  \/ \E mid \in Models \cup {"None"} : GetProgressCall(mid)

\* the download service with clients polling it
SpecPoll == Init /\ [][NextPoll]_vars


(***************************************************************************)
(* Claims about the download service, checked under SpecDownload           *)
(***************************************************************************)
\* the background tasks of model m that have not ended
InFlight(m) == {t \in DOMAIN tasks : tasks[t].model = m /\ tasks[t].pc # "done"}

\* C10: download_model for a model whose download has not ended starts
\* nothing: at any time at most one background task per model is in flight.
C10_AtMostOneInFlight == \A m \in Models : Cardinality(InFlight(m)) <= 1

\* a step that starts a download (download_model) appends a task
StartsDownload == Len(tasks') = Len(tasks) + 1

Terminal == {"complete", "error"}

\* C11: within one download's lifetime the status of a model only moves
\* downloading -> complete or downloading -> error: a status that reached
\* complete or error is changed by no step of a background task, only by a
\* new download_model call.
C11_StatusNeverMovesBack ==
  [][\A m \in Models :
       (download_state[m].status \in Terminal
          /\ download_state'[m].status # download_state[m].status)
       => StartsDownload]_vars

\* C12: while a model is downloading, no step other than a new download_model
\* call lowers the progress recorded for it.
C12_ProgressNeverDecreases ==
  [][\A m \in Models :
       (download_state[m].status = "downloading" /\ ~StartsDownload)
       => download_state'[m].progress >= download_state[m].progress]_vars

\* the background tasks ever created for model m
TasksOf(m) == {t \in DOMAIN tasks : tasks[t].model = m}

\* the model of the task a download_model step creates
Started == tasks'[Len(tasks')].model

\* task t is the only download of its model and ended with the fetch raising
SoleFailed(t) ==
  /\ TasksOf(tasks[t].model) = {t}
  /\ tasks[t].pc = "done"
  /\ tasks[t].raised # "None"

C13_FailureInv ==
  /\ \A t \in DOMAIN tasks :
       SoleFailed(t) =>
         LET st == download_state[tasks[t].model]
         IN  /\ st.status = "error"
             /\ st.error = ErrorMsg(tasks[t].raised)
             /\ st.progress = 25
  /\ \A m \in Models :
       (download_state[m].status = "error" /\ running = 0 /\ starts < MaxStarts)
       => ENABLED DownloadModel(m)

C13_FailureStep ==
  /\ \A t \in DOMAIN tasks :
       (tasks[t].pc \in {"failed", "set_error_msg"} /\ tasks'[t].pc # tasks[t].pc)
       => LET m == tasks[t].model
          IN  /\ download_state'[m].progress = download_state[m].progress
              /\ download_state'[m].status = "error"
              /\ (tasks'[t].pc = "done"
                    => download_state'[m].error = ErrorMsg(tasks[t].raised))
  /\ StartsDownload
       => /\ download_state'[Started].status = "downloading"
          /\ download_state'[Started].progress = 0
          /\ download_state'[Started].error = "None"

\* C13: when the fetch raises, the failure handler leaves the progress as
\* last written and ends with status = error and the message recorded; a
\* download_model call for a model in error is accepted and resets its state
\* to status = downloading, progress = 0.
C13_FailedThenRestartable == []C13_FailureInv /\ [][C13_FailureStep]_vars

\* a failed download of m1 followed by an accepted new download of m1
C13_Witness ==
  /\ Len(tasks) = 2
  /\ tasks[1].model = "m1" /\ tasks[1].pc = "done" /\ tasks[1].raised # "None"
  /\ tasks[2].model = "m1" /\ tasks[2].pc = "created"
  /\ download_state["m1"].status = "downloading"
  /\ download_state["m1"].progress = 0
  /\ download_state["m1"].error = "None"

\* C19: a step changes the DownloadState of a model only if it is a step of
\* a download of that model (a download_model call for it or a step of one
\* of its background tasks): downloads of other models never touch it.
C19_Independent ==
  [][\A m \in Models :
       download_state'[m] # download_state[m]
       => \/ \E t \in TasksOf(m) : tasks'[t] # tasks[t]
          \/ StartsDownload /\ Started = m]_vars

\* m2 was started after m1 and is complete while m1 is still being fetched
C19_Witness ==
  /\ Len(tasks) = 2
  /\ tasks[1].model = "m1" /\ tasks[1].pc = "fetching"
  /\ tasks[2].model = "m2" /\ tasks[2].pc = "done"
  /\ download_state["m1"].status = "downloading"
  /\ download_state["m2"].status = "complete"
  /\ download_state["m2"].progress = 100

(***************************************************************************)
(* Claims about polling, checked under SpecPoll                            *)
(***************************************************************************)
Tracked == {m \in Models : download_state[m].status # "absent"}

\* C14: get_progress() without a model_id returns the tracked state of
\* greatest started_at, and the idle placeholder exactly when download_model
\* was never called.
C14_LatestOrIdle ==
  LET r == GetProgress(download_state, TrackedOrder(tasks), "None")
  IN  /\ (r = IdlePlaceholder) <=> (tasks = <<>>)
      /\ tasks # <<>>
           => /\ \E m \in Tracked : r = download_state[m]
              /\ \A k \in Tracked : download_state[k].started_at <= r.started_at

\* a poll without argument answered with m2, started after m1
C14_Witness ==
  /\ Tracked = {"m1", "m2"}
  /\ download_state["m1"].started_at < download_state["m2"].started_at
  /\ polled = download_state["m2"]
  /\ polled = GetProgress(download_state, TrackedOrder(tasks), "None")

C18_AckInv ==
  /\ \A t \in DOMAIN tasks : tasks[t].ack = "downloading"
  /\ \A t \in DOMAIN tasks :
       SoleFailed(t) =>
         LET r == GetProgress(download_state, TrackedOrder(tasks), tasks[t].model)
         IN  r.status = "error" /\ r.error = ErrorMsg(tasks[t].raised)

C18_AckStep ==
  /\ StartsDownload
       => /\ tasks'[Len(tasks')].pc = "created"
          /\ tasks'[Len(tasks')].raised = "None"
  /\ \A t \in DOMAIN tasks : tasks'[t].ack = tasks[t].ack

\* C18: download_model answers "downloading" when the background task has
\* only been created, the answer is the same whether the fetch later
\* succeeds or fails, and a failed fetch shows in what get_progress returns.
C18_FireAndForget == []C18_AckInv /\ [][C18_AckStep]_vars

\* a download acknowledged with "downloading" failed and a poll reported it
C18_Witness ==
  \E t \in DOMAIN tasks :
    /\ tasks[t].pc = "done" /\ tasks[t].raised # "None"
    /\ tasks[t].ack = "downloading"
    /\ polled.status = "error" /\ polled.model = tasks[t].model

(***************************************************************************)
(* Model switch (lib/models.py, lib/docker.py) and backend loading status  *)
(* (lib/vllm.py)                                                           *)
(***************************************************************************)
\* verify_model_exists(model_id): the model's directory exists
VerifyModelExists(m) == m \in artifacts

\* update_env_file(model_id): nothing is written when .env does not exist,
\* else the DEFAULT_MODEL line is replaced or appended
UpdateEnvFile(e, m) ==
  IF e.exists THEN [e EXCEPT !.default = m, !.writes = @ + 1] ELSE e

\* the /switch-model route answering every outcome with 200
SwitchRouteStatusSwallows(res) == IF res = "not_found" THEN 404 ELSE 200

\* the /switch-model route: ValueError gives 404, any other exception 500,
\* a returned answer 200
SwitchRouteStatus(res) ==
  IF res = "not_found" THEN 404
  ELSE IF res = "error" THEN 500
  ELSE 200

\* the steps of switch_model up to the call of subprocess.run
BeforeRecreate == <<"update_env_file", "invalidate_cache", "recreate_backend">>

\* switch_model persisting the new default before it verifies the model
SwitchModelWritesFirst(m) ==
  /\ sw_pc = "idle"
  /\ sw_model' = m
  /\ env' = UpdateEnvFile(env, m)
  /\ IF VerifyModelExists(m)
       THEN /\ sw_log' = BeforeRecreate
            /\ sw_pc' = "recreating"
            /\ UNCHANGED <<sw_result, sw_http>>
       ELSE /\ sw_result' = "not_found"
            /\ sw_http' = SwitchRouteStatus(sw_result')
            /\ sw_pc' = "done"
            /\ UNCHANGED <<sw_log>>
  /\ UNCHANGED <<artifacts, backend, restart, ls_reply, ls_result>>
  /\ UNCHANGED <<execVars, relayVars, dlVars, polled, poolVars, gateVars,
                 healthVars, timeoutVars, trace>>

\* POST /switch-model: switch_model(m) up to the blocking subprocess.run of
\* recreate_vllm_container; a ValueError is answered with 404
SwitchModel(m) ==
  /\ sw_pc = "idle"
  /\ sw_model' = m
  /\ IF VerifyModelExists(m)
       THEN /\ env' = UpdateEnvFile(env, m)
            /\ sw_log' = BeforeRecreate
            /\ sw_pc' = "recreating"
            /\ UNCHANGED <<sw_result, sw_http>>
       ELSE /\ sw_result' = "not_found"
            /\ sw_http' = SwitchRouteStatus(sw_result')
            /\ sw_pc' = "done"
            /\ UNCHANGED <<env, sw_log>>
  /\ UNCHANGED <<artifacts, backend, restart, ls_reply, ls_result>>
  /\ UNCHANGED <<execVars, relayVars, dlVars, polled, poolVars, gateVars,
                 healthVars, timeoutVars, trace>>

\* how docker compose up can end: return code 0, another return code,
\* TimeoutExpired
RecreateOutcomes == {"ok", "failed", "timeout"}

\* switch_model awaiting the delayed restart before it answers
RecreateReturnsRestartAwaited(how) ==
  /\ sw_pc = "recreating"
  /\ sw_pc' = "done"
  /\ IF how = "ok"
       THEN /\ backend' = "loading"
            /\ restart' = "ran"
            /\ sw_log' = sw_log \o <<"schedule_restart", "restart_self", "ack">>
            /\ sw_result' = "switching"
            /\ sw_http' = SwitchRouteStatus(sw_result')
       ELSE /\ sw_result' = "error"
            /\ sw_http' = SwitchRouteStatus(sw_result')
            /\ backend' \in {backend, "down"}
            /\ UNCHANGED <<restart, sw_log>>
  /\ UNCHANGED <<artifacts, env, sw_model, ls_reply, ls_result>>
  /\ UNCHANGED <<execVars, relayVars, dlVars, polled, poolVars, gateVars,
                 healthVars, timeoutVars, trace>>

\* subprocess.run returns or times out. On success the backend container
\* was recreated and loads the model; switch_model goes on with
\* restart_api_container_delayed, which creates the delayed_restart task,
\* and returns the "switching" answer. On failure recreate_vllm_container
\* raises and the route answers 500
RecreateReturns(how) ==
  /\ sw_pc = "recreating"
  /\ sw_pc' = "done"
  /\ IF how = "ok"
       THEN /\ backend' = "loading"
            /\ restart' = "scheduled"
            /\ sw_log' = sw_log \o <<"schedule_restart", "ack">>
            /\ sw_result' = "switching"
            /\ sw_http' = SwitchRouteStatus(sw_result')
       ELSE /\ sw_result' = "error"
            /\ sw_http' = SwitchRouteStatus(sw_result')
            /\ backend' \in {backend, "down"}
            /\ UNCHANGED <<restart, sw_log>>
  /\ UNCHANGED <<artifacts, env, sw_model, ls_reply, ls_result>>
  /\ UNCHANGED <<execVars, relayVars, dlVars, polled, poolVars, gateVars,
                 healthVars, timeoutVars, trace>>

\* delayed_restart after its sleep: the API container is restarted, or the
\* attempt fails and is only logged
DelayedRestart(ok) ==
  /\ restart = "scheduled"
  /\ sw_pc # "recreating"
  /\ restart' = IF ok THEN "ran" ELSE "failed"
  /\ sw_log' = Append(sw_log, "restart_self")
  /\ UNCHANGED <<artifacts, env, backend, sw_pc, sw_model, sw_result, sw_http,
                 ls_reply, ls_result>>
  /\ UNCHANGED <<execVars, relayVars, dlVars, polled, poolVars, gateVars,
                 healthVars, timeoutVars, trace>>

\* the backend finishes loading its model
BackendLoaded ==
  /\ backend = "loading"
  /\ backend' = "ready"
  /\ UNCHANGED <<artifacts, env, sw_pc, sw_model, sw_log, sw_result, sw_http,
                 restart, ls_reply, ls_result>>
  /\ UNCHANGED <<execVars, relayVars, dlVars, polled, poolVars, gateVars,
                 healthVars, timeoutVars, trace>>

Unreachable == [reached |-> FALSE, code |-> NoStatus, payload |-> "none"]

\* what GET {base_url}/models can bring back, given the backend's state:
\* no answer (connection refused, timeout), a status other than 200, or 200
\* with a body that lists models, lists none, or is not a JSON object
Replies(b) ==
  {Unreachable}
    \cup (IF b = "down" THEN {}
          ELSE {[reached |-> TRUE, code |-> c, payload |-> "none"] :
                  c \in StatusCodes \ {200}}
               \cup {[reached |-> TRUE, code |-> 200, payload |-> p] :
                       p \in {"empty", "malformed"}})
    \cup (IF b = "ready"
          THEN {[reached |-> TRUE, code |-> 200, payload |-> "models"]}
          ELSE {})

\* get_loading_status on a reply: the except branch is taken when the
\* request raises and when .json() or .get() raises on the body
GetLoadingStatus(reply) ==
  IF ~reply.reached THEN "starting"
  ELSE IF reply.code = 200
    THEN IF reply.payload = "malformed" THEN "starting"
         ELSE IF reply.payload = "models" THEN "ready"
         ELSE "loading"
  ELSE "loading"

\* GET /model-loading-status; it cannot run while subprocess.run holds the
\* event loop
GetLoadingStatusCall(reply) ==
  /\ sw_pc # "recreating"
  /\ ls_reply' = reply
  /\ ls_result' = GetLoadingStatus(reply)
  /\ UNCHANGED <<artifacts, env, backend, sw_pc, sw_model, sw_log, sw_result,
                 sw_http, restart>>
  /\ UNCHANGED <<execVars, relayVars, dlVars, polled, poolVars, gateVars,
                 healthVars, timeoutVars, trace>>

NextLifecycle ==
  \/ \E m \in Models : SwitchModel(m)
  \/ \E how \in RecreateOutcomes : RecreateReturns(how)
  \/ \E ok \in BOOLEAN : DelayedRestart(ok)
  \/ BackendLoaded
  \/ \E reply \in Replies(backend) : GetLoadingStatusCall(reply)

\* a switch_model request arrives with some of the models downloaded, .env
\* present or not, and the backend in any state
LifeInit ==
  /\ ExecIdle /\ RelayIdle /\ DownloadIdle /\ PoolIdle /\ GateIdle
  /\ HealthIdle /\ TimeoutIdle
  /\ polled = IdlePlaceholder
  /\ artifacts \in SUBSET Models
  /\ env \in {[exists |-> x, default |-> OldModel, writes |-> 0] : x \in BOOLEAN}
  /\ backend \in {"down", "loading", "ready"}
  /\ sw_pc = "idle" /\ sw_model = "None" /\ sw_log = <<>>
  /\ sw_result = "none" /\ sw_http = NoStatus /\ restart = "none"
  /\ ls_reply = NoReply /\ ls_result = "none"

\* one model switch with status polls around it
SpecLifecycle == LifeInit /\ [][NextLifecycle]_vars


(***************************************************************************)
(* Claims about the model switch and the loading status, checked under     *)
(* SpecLifecycle                                                           *)
(***************************************************************************)
\* C15: switch_model for a model that is not downloaded is answered with
\* not-found (404) and has no effect: the container controller is not called
\* (no recreate, no restart scheduled or run) and .env is not written.
C15_NotFoundHasNoEffect ==
  (sw_pc # "idle" /\ ~VerifyModelExists(sw_model))
  => /\ sw_pc = "done"
     /\ sw_result = "not_found" /\ sw_http = 404
     /\ sw_log = <<>>
     /\ restart = "none"
     /\ env.writes = 0 /\ env.default = OldModel

\* m1 was asked for while only m2 is downloaded and .env could be written
C15_Witness ==
  /\ sw_result = "not_found" /\ sw_model = "m1"
  /\ artifacts = {"m2"} /\ env.exists

\* the steps of a switch that succeeded, up to its answer
SwitchSteps == BeforeRecreate \o <<"schedule_restart", "ack">>

C16_OrderInv ==
  /\ sw_log \in {<<>>, BeforeRecreate, SwitchSteps,
                 Append(SwitchSteps, "restart_self")}
  /\ sw_result = "switching"
       => /\ SubSeq(sw_log, 1, Len(SwitchSteps)) = SwitchSteps
          /\ env.exists => env.default = sw_model
  /\ restart \in {"ran", "failed"}
       <=> (sw_result = "switching" /\ sw_log = Append(SwitchSteps, "restart_self"))

C16_AckStep ==
  (sw_result' = "switching" /\ sw_result # "switching")
  => /\ restart' = "scheduled"
     /\ backend' = "loading"

C17_ThreeWayClassification ==
  ls_result # "none"
  => /\ ls_result = "ready" <=> (ls_reply.reached /\ ls_reply.payload = "models")
     /\ ls_result = "loading" <=> (ls_reply.reached /\ ls_reply.payload # "models")
     /\ ls_result = "starting" <=> ~ls_reply.reached

(***************************************************************************)
(* The shared client under concurrent callers (utils/http_client.py,       *)
(* get_http_client and close_http_client)                                  *)
(***************************************************************************)
\* httpx.AsyncClient(...): a new shared client, open
NewPooled == [closing |-> FALSE, closes |-> 0]

\* get_http_client() called by c: a plain function, it creates the client
\* when _http_client is None and returns _http_client, without suspending
GetHttpClientCall(c) ==
  /\ callers[c].pc = "idle"
  /\ pool_ops < MaxPoolOps
  /\ pool_ops' = pool_ops + 1
  /\ IF http_client = 0
       THEN /\ pooled' = Append(pooled, NewPooled)
            /\ http_client' = Len(pooled) + 1
       ELSE UNCHANGED <<pooled, http_client>>
  /\ callers' = [callers EXCEPT ![c].got = http_client']
  /\ UNCHANGED <<execVars, relayVars, dlVars, polled, lifeVars, gateVars,
                 healthVars, timeoutVars, trace>>

\* close_http_client() called by c, up to its suspension in
\* await _http_client.aclose(); it returns at once when _http_client is None
CloseHttpClientBegin(c) ==
  /\ callers[c].pc = "idle"
  /\ pool_ops < MaxPoolOps
  /\ pool_ops' = pool_ops + 1
  /\ IF http_client # 0
       THEN /\ pooled' = [pooled EXCEPT ![http_client].closing = TRUE]
            /\ callers' = [callers EXCEPT ![c].pc = "closing",
                                          ![c].target = http_client,
                                          ![c].shutdowns = @ + 1]
       ELSE /\ callers' = [callers EXCEPT ![c].shutdowns = @ + 1]
            /\ UNCHANGED <<pooled>>
  /\ UNCHANGED <<http_client>>
  /\ UNCHANGED <<execVars, relayVars, dlVars, polled, lifeVars, gateVars,
                 healthVars, timeoutVars, trace>>

\* aclose() has returned and the global is left naming the closed client
CloseHttpClientEndKeepsRef(c) ==
  /\ callers[c].pc = "closing"
  /\ pooled' = [pooled EXCEPT ![callers[c].target].closes = @ + 1]
  /\ callers' = [callers EXCEPT ![c].pc = "idle", ![c].target = 0]
  /\ UNCHANGED <<http_client, pool_ops>>
  /\ UNCHANGED <<execVars, relayVars, dlVars, polled, lifeVars, gateVars,
                 healthVars, timeoutVars, trace>>


\* aclose() has returned: _http_client = None
CloseHttpClientEnd(c) ==
  /\ callers[c].pc = "closing"
  /\ pooled' = [pooled EXCEPT ![callers[c].target].closes = @ + 1]
  /\ http_client' = 0
  /\ callers' = [callers EXCEPT ![c].pc = "idle", ![c].target = 0]
  /\ UNCHANGED <<pool_ops>>
  /\ UNCHANGED <<execVars, relayVars, dlVars, polled, lifeVars, gateVars,
                 healthVars, timeoutVars, trace>>

NextPool ==
  \/ \E c \in Callers : GetHttpClientCall(c)
  \/ \E c \in Callers : CloseHttpClientBegin(c)
  \/ \E c \in Callers : CloseHttpClientEnd(c)

\* the pool manager called from concurrent coroutines
SpecPool == Init /\ [][NextPool]_vars

(***************************************************************************)
(* Claims about the pool manager, checked under SpecPool                   *)
(***************************************************************************)
\* the shared clients that are open and on which no aclose() was begun
LivePooled == {i \in DOMAIN pooled : ~pooled[i].closing /\ pooled[i].closes = 0}

\* the shared clients a close_http_client call is closing
BeingClosed == {callers[c].target : c \in {k \in Callers : callers[k].pc = "closing"}}

\* C20: at most one shared client is live at any time; callers before any
\* shutdown all get the one client created; and a shared client that
\* _http_client no longer names has been closed or is being closed.
C20_OneLiveNoneDropped ==
  /\ Cardinality(LivePooled) <= 1
  /\ (\A i \in DOMAIN pooled : pooled[i] = NewPooled)
       => /\ Len(pooled) <= 1
          /\ \A c \in Callers : callers[c].got \in {0, http_client}
  /\ \A i \in DOMAIN pooled :
       i # http_client => (pooled[i].closes > 0 \/ i \in BeingClosed)

(***************************************************************************)
(* close_http_client called in succession                                  *)
(***************************************************************************)
\* the callers suspended in close_http_client
Closing == {c \in Callers : callers[c].pc = "closing"}

\* close_http_client calls follow one another: a call begins only when no
\* other is in progress; get_http_client calls are free
NextShutdown ==
  \/ \E c \in Callers : GetHttpClientCall(c)
  \/ \E c \in Callers : Closing = {} /\ CloseHttpClientBegin(c)
  \/ \E c \in Callers : CloseHttpClientEnd(c)

SpecShutdown == Init /\ [][NextShutdown]_vars

C21_ClosedOnceInv ==
  /\ \A i \in DOMAIN pooled :
       /\ pooled[i].closes <= 1
       /\ i # http_client => (pooled[i].closes = 1 \/ i \in BeingClosed)
  /\ (Closing = {} /\ http_client # 0) => pooled[http_client] = NewPooled

C21_NoopStep ==
  (http_client = 0 /\ callers' # callers /\ Len(pooled') = Len(pooled))
  => UNCHANGED <<http_client, pooled>>
       /\ \A c \in Callers : callers'[c].pc = callers[c].pc

\* C21: close_http_client calls made one after the other close each shared
\* client exactly once; a call made when _http_client is None (after a close,
\* or before any client was created) changes nothing.
C21_ShutdownIdempotent == []C21_ClosedOnceInv /\ [][C21_NoopStep]_vars

\* two close_http_client calls in succession after one get_http_client
C21_Witness ==
  /\ callers[1].shutdowns = 2 /\ callers[2].shutdowns = 0
  /\ pooled = <<[closing |-> TRUE, closes |-> 1]>>
  /\ http_client = 0 /\ Closing = {}
  /\ pool_ops = 3


(***************************************************************************)
(* The routes and their dependencies (routers/*.py, apps/api/auth.py)      *)
(***************************************************************************)
\* the routes declared with token: str = Depends(verify_token)
Protected ==
  {"chat", "models", "model-status", "download-progress", "switch-model",
   "model-loading-status", "download-model", "delete-model", "restart-api"}

\* the routes declared without it
Open == {"healthz", "metrics", "root"}

\* what a route's handler does when it runs: a request to the upstream, an
\* action of the model lifecycle or the container controller, or neither
Effect(ep) ==
  IF ep \in {"chat", "models", "model-status", "model-loading-status",
             "healthz", "metrics"} THEN "upstream"
  ELSE IF ep \in {"download-model", "switch-model", "delete-model",
                  "restart-api"} THEN "lifecycle"
  ELSE "local"

\* the Authorization header of a request: absent, of another scheme than
\* Bearer, a Bearer token other than proxy_api_key, or proxy_api_key
Auths == {"missing", "other_scheme", "wrong", "valid"}

\* verify_token accepting every Bearer token
VerifyTokenAnyBearer(auth) ==
  IF auth \in {"missing", "other_scheme"} THEN 403 ELSE NoStatus

\* Security(HTTPBearer()) answers 403 when no Bearer credentials are sent;
\* verify_token raises 401 when the token differs from proxy_api_key
VerifyToken(auth) ==
  IF auth \in {"missing", "other_scheme"} THEN 403
  ELSE IF auth # "valid" THEN 401
  ELSE NoStatus

\* a request to route ep from address addr: the dependencies are resolved
\* and, unless one raised, the handler runs. No route of routers/ carries a
\* limiter.limit decorator and the Limiter has no default limit, so nothing
\* counts or rejects requests
Request(ep, addr, auth) ==
  /\ gw_count < MaxRequests
  /\ gw_count' = gw_count + 1
  /\ gw_req' = [endpoint |-> ep, client |-> addr, auth |-> auth]
  /\ gw_status' = IF ep \in Protected THEN VerifyToken(auth) ELSE NoStatus
  /\ gw_effect' = IF gw_status' = NoStatus THEN Effect(ep) ELSE "none"
  /\ sent' = IF gw_status' = NoStatus /\ ep = "chat"
               THEN [sent EXCEPT ![addr] = @ + 1]
               ELSE sent
  /\ UNCHANGED <<stream_field>>
  /\ UNCHANGED <<execVars, relayVars, dlVars, polled, lifeVars, poolVars,
                 healthVars, timeoutVars, trace>>

\* a minute has passed
MinuteElapses ==
  /\ gw_count > 0
  /\ gw_count' = 0
  /\ sent' = [c \in Clients |-> 0]
  /\ UNCHANGED <<stream_field, gw_req, gw_status, gw_effect>>
  /\ UNCHANGED <<execVars, relayVars, dlVars, polled, lifeVars, poolVars,
                 healthVars, timeoutVars, trace>>

NextGate ==
  \/ \E ep \in Protected \cup Open, addr \in Clients, auth \in Auths :
       Request(ep, addr, auth)
  \/ MinuteElapses

\* requests arriving at the gateway
SpecGate == Init /\ [][NextGate]_vars

(***************************************************************************)
(* Claims about the routes, checked under SpecGate                         *)
(***************************************************************************)
C22_RejectedInv ==
  (gw_req.endpoint \in Protected /\ gw_req.auth # "valid")
  => /\ gw_status = (IF gw_req.auth = "wrong" THEN 401 ELSE 403)
     /\ gw_effect = "none"

C22_RejectedStep ==
  (gw_req' # gw_req /\ gw_req'.endpoint \in Protected /\ gw_req'.auth # "valid")
  => sent' = sent

\* C22: a request to a protected route is answered 401 when its bearer token
\* is not the configured key and 403 when it carries no bearer credentials;
\* its handler does not run: no upstream request, no lifecycle action.
C22_Unauthenticated == []C22_RejectedInv /\ [][C22_RejectedStep]_vars

\* a switch-model request with a wrong token was answered 401
C22_Witness ==
  /\ gw_req.endpoint = "switch-model" /\ gw_req.auth = "wrong"
  /\ gw_status = 401 /\ gw_effect = "none"

\* C23: within one minute at most RateLimitPerMinute chat requests of one
\* client address are forwarded to the upstream.
C23_RateLimited == \A c \in Clients : sent[c] <= RateLimitPerMinute


(***************************************************************************)
(* The relay as a function of the upstream lines, checked under SpecRelay  *)
(***************************************************************************)
\* a data line whose content is the sentinel
IsSentinel(line) == StartsWithData(line) /\ Strip(line) = SentinelLine

\* the frames of the data lines up to and including the first sentinel line
RECURSIVE Relayed(_)
Relayed(lines) ==
  IF lines = <<>> THEN <<>>
  ELSE IF IsSentinel(Head(lines)) THEN <<Frame(Head(lines))>>
  ELSE IF StartsWithData(Head(lines)) THEN <<Frame(Head(lines))>> \o Relayed(Tail(lines))
  ELSE Relayed(Tail(lines))

\* C30: when no read error occurs, the output of the relay is the frames of
\* the data lines up to and including the first sentinel line, each line
\* verbatim; blank and other lines are dropped, nothing after the sentinel is
\* emitted, and without a sentinel nothing is added after the last data frame.
C30_RelayFunction ==
  /\ rexit \in {"none", "sentinel", "exhausted"} => IsPrefix(out, Relayed(upLines))
  /\ (rpc = "done" /\ rexit \in {"sentinel", "exhausted"}) => out = Relayed(upLines)

\* a body with a data line after the sentinel was relayed to its end
C30_Witness ==
  /\ rpc = "done" /\ rexit = "sentinel"
  /\ upLines = <<"data: {a}", "data: [DONE] ", "data: {b}">>
  /\ out = <<Frame("data: {a}"), Frame("data: [DONE] ")>>


(***************************************************************************)
(* Claims about the proxied operations, checked under SpecProxy            *)
(***************************************************************************)
\* C24: a chat call ends with a response, with the upstream's own error
\* status, or with 504 / 502; 504 and 502 are answered only when all
\* max_retries attempts were made, 504 when the last failure was a timeout.
C24_ChatOutcomes ==
  (site = "chat_completion" /\ pc = "done")
  => /\ result \in {"streaming", "json", "http_error"}
     /\ result = "http_error"
          => \/ response >= 400 /\ http_status = response
             \/ /\ http_status \in {502, 504}
                /\ requests = max_retries
                /\ http_status = 504 <=> raised = "TimeoutException"

\* C25: an upstream response with an error status ends a chat call and a
\* model listing with an HTTP error carrying that status.
C25_ErrorPassedThrough ==
  (site \in {"chat_completion", "list_models"} /\ pc = "done" /\ response >= 400)
  => result = "http_error" /\ http_status = response

\* C29: a chat call is answered with JSON only when the request sets stream
\* to false; a request without the stream field is answered with the stream.
C29_StreamingByDefault ==
  (site = "chat_completion" /\ pc = "done" /\ result \in {"streaming", "json"})
  => (result = "json" <=> stream_field = "false")


(***************************************************************************)
(* Health snapshot (lib/vllm.py, get_health_status)                        *)
(***************************************************************************)
\* how the optional GET /metrics can end: the request raises, the status is
\* not 200, the text has no vllm:num_requests_waiting line, the value on that
\* line is not a number, or the line carries the number waiting
MetricsOutcomes == {"raised", "non200", "no_gauge", "unparsable", "waiting"}
\* queue_size after the scrape: None (<<>>) unless int(float(...)) succeeded
QueueSize(metrics) == IF metrics = "waiting" THEN <<3>> ELSE <<>>

\* the first request, or the parsing of its body, raised: the outer except
\* branch is taken and GET /metrics is not made
ModelsCheckRaised(reply) ==
  ~reply.reached \/ (reply.code = 200 /\ reply.payload = "malformed")

\* get_health_status with GET /metrics inside the outer try only: a scrape
\* that raises takes the outer except branch
GetHealthStatusOneTry(reply, metrics) ==
  LET up     == reply.reached /\ reply.code = 200
      loaded == up /\ reply.payload = "models"
      failed == ModelsCheckRaised(reply) \/ metrics \in {"raised", "unparsable"}
      st0    == IF failed THEN "degraded" ELSE "healthy"
  IN  [status |-> IF ~up THEN "unhealthy"
                  ELSE IF ~loaded THEN "degraded"
                  ELSE st0,
       gpu_available |-> loaded,
       model_loaded |-> loaded,
       upstream_healthy |-> up,
       queue_size |-> IF failed THEN <<>> ELSE QueueSize(metrics)]

\* get_health_status: the snapshot built from the reply to GET /models and
\* the outcome of GET /metrics. The metrics are fetched only when the first
\* request and the parsing of its body did not raise
GetHealthStatus(reply, metrics) ==
  LET up     == reply.reached /\ reply.code = 200
      loaded == up /\ reply.payload = "models"
      failed == ModelsCheckRaised(reply)
      st0    == IF failed THEN "degraded" ELSE "healthy"
  IN  [status |-> IF ~up THEN "unhealthy"
                  ELSE IF ~loaded THEN "degraded"
                  ELSE st0,
       gpu_available |-> loaded,
       model_loaded |-> loaded,
       upstream_healthy |-> up,
       queue_size |-> IF failed THEN <<>> ELSE QueueSize(metrics)]

\* a health query answered with the snapshot of an earlier query
HealthCheckCached(reply, metrics) ==
  /\ sw_pc # "recreating"
  /\ hl_reply' = reply
  /\ hl_metrics' = IF ModelsCheckRaised(reply) THEN "unasked" ELSE metrics
  /\ health' = IF health = NoSnapshot THEN GetHealthStatus(reply, metrics)
               ELSE health
  /\ UNCHANGED <<execVars, relayVars, dlVars, polled, lifeVars, poolVars,
                 gateVars, timeoutVars, trace>>

\* GET /api/healthz: the snapshot is built anew from the backend's reply
HealthCheck(reply, metrics) ==
  /\ sw_pc # "recreating"
  /\ hl_reply' = reply
  /\ hl_metrics' = IF ModelsCheckRaised(reply) THEN "unasked" ELSE metrics
  /\ health' = GetHealthStatus(reply, metrics)
  /\ UNCHANGED <<execVars, relayVars, dlVars, polled, lifeVars, poolVars,
                 gateVars, timeoutVars, trace>>

NextHealth ==
  \/ NextLifecycle
  \/ \E reply \in Replies(backend), metrics \in MetricsOutcomes :
       HealthCheck(reply, metrics)

\* health queries while a model switch goes on
SpecHealth == LifeInit /\ [][NextHealth]_vars

\* C28: every snapshot reflects the reply to its own query: upstream_healthy
\* iff the listing answered 200, model_loaded iff that answer lists a model,
\* status "unhealthy" whenever upstream_healthy is false and "healthy" only
\* when upstream_healthy and model_loaded are both true.
C28_HealthSnapshot ==
  health # NoSnapshot
  => /\ health.upstream_healthy <=> (hl_reply.reached /\ hl_reply.code = 200)
     /\ health.model_loaded
          <=> (hl_reply.reached /\ hl_reply.code = 200 /\ hl_reply.payload = "models")
     /\ health.model_loaded => health.upstream_healthy
     /\ ~health.upstream_healthy => health.status = "unhealthy"
     /\ health.status = "healthy"
          => (health.upstream_healthy /\ health.model_loaded)

\* a query found the backend serving a model
C28_Witness ==
  /\ health.status = "healthy" /\ health.model_loaded
  /\ health.upstream_healthy /\ backend = "ready"
  /\ hl_reply.code = 200 /\ hl_reply.payload = "models"

\* C26: a failure of the backend recreation or of the delayed restart is
\* answered to the switch call that triggered it as a gateway error.
C26_NoFailureSwallowed ==
  /\ sw_result = "error" => sw_http >= 500
  /\ restart = "failed" => sw_http >= 500

\* C27: when the recreation of the backend fails, the switch call is answered
\* with 500 and no acknowledgment, and the delayed restart is neither
\* scheduled nor run.
C27_RecreateFailure ==
  (sw_pc = "done" /\ sw_log = BeforeRecreate)
  => /\ sw_result = "error" /\ sw_http = 500
     /\ restart = "none"

\* the recreation failed after .env was written
C27_Witness ==
  /\ sw_pc = "done" /\ sw_log = BeforeRecreate
  /\ sw_result = "error" /\ sw_http = 500
  /\ env.default = sw_model /\ restart = "none"



\* C31: whenever switch_model has answered "switching", .env names the
\* requested model as DEFAULT_MODEL through exactly one write, and that write
\* was made before the backend was recreated.
C31_DefaultPersisted ==
  /\ sw_result = "switching" => (env.default = sw_model /\ env.writes = 1)
  /\ sw_pc = "recreating" /\ env.exists => env.default = sw_model



\* the scrape of the last health query was made and brought no number
ScrapeFailed == hl_metrics \in MetricsOutcomes \ {"waiting"}

\* C32: a failed scrape (exception, status other than 200, no gauge line,
\* unparsable gauge value) leaves queue_size absent and the caller still gets
\* a snapshot whose upstream_healthy, model_loaded, gpu_available and status
\* are those of the same query with a successful scrape.
C32_ScrapeBestEffort ==
  ScrapeFailed
  => LET scraped == GetHealthStatus(hl_reply, "waiting")
     IN  /\ health.queue_size = <<>>
         /\ health.upstream_healthy = scraped.upstream_healthy
         /\ health.model_loaded = scraped.model_loaded
         /\ health.gpu_available = scraped.gpu_available
         /\ health.status = scraped.status
         /\ health.status \in {"healthy", "degraded", "unhealthy"}

\* the backend served a model and GET /metrics raised
C32_Witness ==
  /\ hl_metrics = "raised"
  /\ hl_reply.reached /\ hl_reply.code = 200 /\ hl_reply.payload = "models"
  /\ health.status = "healthy" /\ health.queue_size = <<>>



\* C33: on every attempt after the first, of request_with_retry and of the
\* chat endpoint, the timeout of the request is RetryTimeout and is strictly
\* shorter than the timeout that applied to the first attempt.
C33_RetryTimeoutShorter ==
  (site # "none" /\ attempt > 0 /\ pc = "request")
  => /\ timeout = RetryTimeout
     /\ timeout < first_timeout



(***************************************************************************)
(* Termination of downloads: the event loop runs every task that is ready, *)
(* the executor runs every submitted call, and every snapshot_download     *)
(* returns or raises                                                       *)
(***************************************************************************)
\* any step of background task t or of its executor thread
TaskStep(t) ==
  /\ t \in DOMAIN tasks
  /\ \/ BgSetProgress10(t)
     \/ BgSetDownloading(t)
     \/ SyncSetProgress25(t)
     \/ SyncFetchSucceeds(t)
     \/ \E kind \in FetchErrors : SyncFetchFails(t, kind)
     \/ SyncSetProgress90(t)
     \/ BgSetProgress100(t)
     \/ BgSetComplete(t)
     \/ BgSetError(t)
     \/ BgSetErrorMsg(t)

NextFair ==
  \/ \E m \in Models : starts < MaxFairStarts /\ DownloadModel(m)
  \/ \E t \in 1..MaxFairStarts : TaskStep(t)

\* the download service under a fair scheduler
SpecDownloadFair ==
  Init /\ [][NextFair]_vars /\ \A t \in 1..MaxFairStarts : WF_vars(TaskStep(t))

\* C34: every download that was started leads to the status complete or
\* error of its model; no entry stays "downloading" forever, whether or not
\* downloads of the same or of other models overlap.
C34_DownloadsTerminate ==
  \A m \in Models :
    (download_state[m].status = "downloading")
      ~> (download_state[m].status \in Terminal)

\* two overlapping downloads of m1 have both ended, the second by a failure
C34_Witness ==
  /\ Len(tasks) = 2
  /\ tasks[1].model = "m1" /\ tasks[1].pc = "done" /\ tasks[1].raised = "None"
  /\ tasks[2].model = "m1" /\ tasks[2].pc = "done" /\ tasks[2].raised # "None"
  /\ download_state["m1"].status = "complete"



\* C35: the model listing answers a connect failure, a remote protocol
\* error or a timeout with 502 only after max_attempts attempts, the retries
\* on fresh clients, as the chat endpoint does.
C35_ListingResilient ==
  (site = "list_models" /\ pc = "done" /\ http_status = 502
     /\ err \in RetryableErrors)
  => attempt + 1 = ChatMaxRetries



\* C36: get_progress(model_id) with a model named returns that model's
\* entry when the model is tracked and the idle placeholder when it is not,
\* never the entry of another model.
C36_OwnStateOrIdle ==
  [][\A mid \in Models :
       GetProgressCall(mid)
       => polled' = IF download_state[mid].status # "absent"
                      THEN download_state[mid]
                      ELSE IdlePlaceholder]_vars



\* C37: the shared client get_http_client returns is open when it is
\* returned: no close_http_client call has begun or finished its aclose().
C37_ReturnedHandleOpen ==
  [][\A c \in Callers :
       GetHttpClientCall(c)
       => LET h == pooled'[callers'[c].got]
          IN  ~h.closing /\ h.closes = 0]_vars



\* C38: whenever the event loop is between two coroutine blocks, an entry
\* with status "complete" has progress 100 and an entry with status
\* "downloading" has a progress below 100.
C38_StatusMatchesProgress ==
  running = 0
  => \A m \in Models :
       /\ download_state[m].status = "complete"
            => download_state[m].progress = 100
       /\ download_state[m].status = "downloading"
            => download_state[m].progress < 100



\* C39: while a switch_model call waits for the recreation of the backend,
\* a health query and a loading-status query can take their step.
C39_SwitchSuspends ==
  sw_pc = "recreating"
  => /\ ENABLED (\E reply \in Replies(backend), metrics \in MetricsOutcomes :
                   HealthCheck(reply, metrics))
     /\ ENABLED (\E reply \in Replies(backend) : GetLoadingStatusCall(reply))



(***************************************************************************)
(* The two retry loops compared, checked under Spec                        *)
(***************************************************************************)
\* how a request can end, as the loops tell it apart
OutcomeKinds == {"response", "retryable", "other"}

\* the outcomes of the requests of the call so far, in order
Outcomes(tr) == SelectSeq(tr, LAMBDA ev : ev \in OutcomeKinds)

\* what an executor does on the outcomes outs: the first request on the
\* shared client, every later one after a sleep on a fresh client, which is
\* closed after a response and after a retryable failure
RECURSIVE ExecutorTrace(_)
ExecutorTrace(outs) ==
  IF outs = <<>> THEN <<>>
  ELSE LET n == Len(outs)
       IN  ExecutorTrace(SubSeq(outs, 1, n - 1))
             \o (IF n = 1 THEN <<"pooled">> ELSE <<"sleep", "open">>)
             \o <<outs[n]>>
             \o (IF n > 1 /\ outs[n] # "other" THEN <<"close">> ELSE <<>>)

\* C40: a finished call of either loop has done exactly what the outcomes of
\* its requests determine, the same for request_with_retry and for the chat
\* endpoint: it slept retry_delay before each retry, made at most max_retries
\* requests, went on only after retryable failures, and ended with the
\* response of its last request or with the error that request raised.
C40_SameExecutor ==
  (site \in {"request_with_retry", "chat_completion"} /\ pc = "done")
  => LET outs == Outcomes(trace)
         n == Len(outs)
     IN  /\ trace = ExecutorTrace(outs)
         /\ n \in 1..max_retries /\ n = attempt + 1
         /\ \A i \in 1..(n - 1) : outs[i] = "retryable"
         /\ sleeps = n - 1 /\ slept = (n - 1) * retry_delay
         /\ outs[n] = "response" => (response # NoStatus /\ raised = NoError)
         /\ outs[n] = "retryable" => (n = max_retries /\ raised = err)
         /\ outs[n] = "other" => raised = err
         /\ outs[n] # "response" => response = NoStatus

\* request_with_retry, called with the max_retries and the delay of the chat
\* endpoint, gave up after its last retry
C40_Witness ==
  /\ site = "request_with_retry" /\ pc = "done"
  /\ max_retries = ChatMaxRetries /\ retry_delay = ChatRetryDelay
  /\ Len(Outcomes(trace)) = ChatMaxRetries
  /\ trace[Len(trace)] = "close"
  /\ raised = "TimeoutException"


=============================================================================
